---- MODULE Spec2Model ----
(***************************************************************************)
(* A model of para-convolution:                                            *)
(*   - the linked-list work-stealing Deque   (proj3/deque/deque.go)        *)
(*   - the work-stealing pool RunBSPSteal    (proj3/scheduler/bsp.go)      *)
(*   - the reusable phase Barrier            (proj3/png/effects.go)        *)
(*   - RunBSP: one image at a time, one barrier phase of row bands per     *)
(*     effect (proj3/scheduler/bsp.go, proj3/png/effects.go)               *)
(*   - the channel arithmetic of grayscale and of the integer kernels      *)
(*     (proj3/png/effects.go)                                              *)
(*   - RunParallelFiles and its TASLock      (proj1/scheduler/parfiles.go) *)
(* Every atomic load and compare-and-swap of the deque is one step of the  *)
(* calling thread; pc[t] names the source line the thread executes next.   *)
(***************************************************************************)
EXTENDS Integers, Sequences, FiniteSets, TLC

(* ------------------------------ bounds --------------------------------- *)
\* largest worker count W of a pool run
MaxWorkers == 2
\* largest number of tasks pushed on a single deque
MaxTasks == 3
\* largest task count M of a pool run
MaxPoolTasks == 2
\* number of thief threads of a single-deque run
MaxThieves == 1
\* Pop/Steal calls started in a run of owner and thieves together
MaxOps == 3
\* phases a Barrier is reused for
MaxPhases == 2
\* largest number of tasks in the task list of a RunBSP run
MaxImages == 1
\* largest number of effect identifiers in the task list of a RunBSP run
MaxEffects == 2
\* largest image height (rows)
MaxHeight == 2
\* largest number of tasks in the queue of a RunParallelFiles run
MaxFiles == 3
\* largest image width (columns) of the pixel arithmetic
MaxWidth == 2
\* largest number of tasks in the task list of a RunBSP run over several images
MaxBatch == 2

(* ------------------------------- heap ---------------------------------- *)
\* the nil pointer
Nil == 0
\* the nil *png.ImageTask (the dummy node's task)
NilTask == 0

Deques == 0 .. (MaxWorkers - 1)
Tasks == 1 .. MaxTasks
\* the goroutines: workers 0 .. MaxWorkers-1 and the goroutine calling RunBSPSteal
Threads == 0 .. MaxWorkers
Main == MaxWorkers
\* in a single-deque run: the owner of deque 0 and the thieves
Owner == 0
Thieves == 1 .. MaxThieves

\* NewDeque: the dummy node of deque d
Dummy(d) == d + 1
\* Push: newNode := &node{task: task}, a fresh node per pushed task
NodeOf(k) == MaxWorkers + k
Nodes == 1 .. (MaxWorkers + MaxTasks)
\* node.task, set when the node is built and never written again
TaskOf(n) == IF n > MaxWorkers THEN n - MaxWorkers ELSE NilTask

VARIABLES
    head,       \* Deque.head of every deque
    tail,       \* Deque.tail of every deque
    next,       \* node.next of every node
    pc,         \* the source line each thread runs next
    frame,      \* the locals of the deque call a thread is in
    result,     \* (task, ok) a finished Pop/Steal handed to its caller
    log,        \* history: the pushes and the successful Pop/Steal, in order
    calls,      \* Pop/Steal calls started in a single-deque run
    crashed,    \* a goroutine panicked (nil dereference): the process is gone
    numWorkers, \* RunBSPSteal: config.ThreadCount
    numTasks,   \* RunBSPSteal: the number of tasks effects.txt decodes to
    seeded,     \* RunBSPSteal: tasks decoded and pushed so far
    workerIndex,\* RunBSPSteal: the deque the next task goes to
    wg,         \* RunBSPSteal: the WaitGroup counter
    victim,     \* stealWork: the index in victims the thief has reached
    task,       \* worker loop: the task obtained from Pop or stealWork
    processed,  \* how many times processImageBSP was called on each task
    threshold,  \* Barrier.threshold
    count,      \* Barrier.count
    generation, \* Barrier.generation
    mutex,      \* Barrier.Mutex: Free, or HeldBy the thread that locked it
    notify,     \* Barrier.cond: the threads parked in cond.Wait()
    localGen,   \* Barrier.Wait: each caller's localGen
    entered,    \* how many times each thread has called Barrier.Wait
    returned,   \* how many times Barrier.Wait has returned to each thread
    tasks,      \* RunBSP: the task list effects.txt decodes to (each task's Effects)
    numThreads, \* RunBSP: config.ThreadCount
    ti,         \* RunBSP: the index in tasks of the task being processed
    img,        \* processImageBSP: the png.Image (In, Out, Bounds, EffectsApplied)
    pixels,     \* the rows of the two RGBA64 buffers
    ei,         \* applyEffectsSliced: the loop index i
    bi,         \* BSPConvolution/BSPGrayscale: the loop index i
    bands,      \* the band goroutines that have not returned yet
    barriers,   \* the Barrier each effect phase created (count, threshold, generation)
    mainGen,    \* localGen of the launching thread's barrier.Wait()
    applied,    \* history: the effect phases started (task, effect, In, Out)
    spawned,    \* history: the bands (start, end) launched in the current phase
    swaps,      \* history: SwapBuffers calls on the current image
    saved,      \* history: the images Save has written
    state,      \* TASLock.state
    queue,      \* RunParallelFiles: the tasks slice, as the ids of the tasks left in it
    threadCount,\* RunParallelFiles: config.ThreadCount
    numFiles,   \* RunParallelFiles: the number of tasks effects.txt decodes to
    started,    \* RunParallelFiles: the goroutines started so far (the loop index i)
    wgFiles,    \* RunParallelFiles: the WaitGroup counter
    taken,      \* RunParallelFiles: each goroutine's local task
    dequeued,   \* history: the tasks taken off the queue, with the goroutine that took them
    ran,        \* how many times processImageTask was called on each task
    bounds,     \* pixel arithmetic: img.Bounds (width and height)
    rgba,       \* pixel arithmetic: the channel values of img.In and img.Out
    kernels,    \* pixel arithmetic: the effect list applied to the image
    ki,         \* pixel arithmetic: the loop index i of applyEffectsSliced
    slices,     \* pixel arithmetic: the bands of the current phase not computed yet
    nslices,    \* pixel arithmetic: numThreads
    phases,     \* history: the effects applied (effect, input buffer, output buffer)
    written     \* history: the buffers Save has encoded

poolVars == <<numWorkers, numTasks, seeded, workerIndex, wg, victim, task, processed>>
barrierVars == <<threshold, count, generation, mutex, notify, localGen, entered, returned>>
bspVars == <<tasks, numThreads, ti, img, pixels, ei, bi, bands, barriers, mainGen,
             applied, spawned, swaps, saved>>
filesVars == <<state, queue, threadCount, numFiles, started, wgFiles, taken, dequeued, ran>>
pixelVars == <<bounds, rgba, kernels, ki, slices, nslices, phases, written>>
vars == <<head, tail, next, pc, frame, result, log, calls, crashed,
          numWorkers, numTasks, seeded, workerIndex, wg, victim, task, processed,
          threshold, count, generation, mutex, notify, localGen, entered, returned,
          tasks, numThreads, ti, img, pixels, ei, bi, bands, barriers, mainGen,
          applied, spawned, swaps, saved,
          state, queue, threadCount, numFiles, started, wgFiles, taken, dequeued, ran,
          bounds, rgba, kernels, ki, slices, nslices, phases, written>>

NoFrame == [d |-> 0, tail |-> Nil, head |-> Nil, next |-> Nil, current |-> Nil, newNode |-> Nil]
NoResult == [task |-> NilTask, ok |-> FALSE]
Event(op, k) == [op |-> op, task |-> k]

InitHeap ==
    /\ head = [d \in Deques |-> Dummy(d)]
    /\ tail = [d \in Deques |-> Dummy(d)]
    /\ next = [n \in Nodes |-> Nil]
    /\ pc = [t \in Threads |-> "idle"]
    /\ frame = [t \in Threads |-> NoFrame]
    /\ result = [t \in Threads |-> NoResult]
    /\ log = <<>>
    /\ calls = 0
    /\ crashed = FALSE

\* no pool is running
NoPool ==
    /\ numWorkers = 0 /\ numTasks = 0 /\ seeded = 0 /\ workerIndex = 0 /\ wg = 0
    /\ victim = [t \in Threads |-> 0]
    /\ task = [t \in Threads |-> NilTask]
    /\ processed = [k \in Tasks |-> 0]

\* sync.Mutex: unlocked, or locked by thread t
Free == {}
HeldBy(t) == {t}

NoBarrier ==
    /\ threshold = 0 /\ count = 0 /\ generation = 0
    /\ mutex = Free
    /\ notify = {}
    /\ localGen = [t \in Threads |-> 0]
    /\ entered = [t \in Threads |-> 0]
    /\ returned = [t \in Threads |-> 0]

\* no png.Image is loaded: the two pixel buffers
Buffers == {1, 2}
NoImage == [In |-> 1, Out |-> 2, height |-> 0, EffectsApplied |-> FALSE]

\* RunBSP is not running
NoBSP ==
    /\ tasks = <<>> /\ numThreads = 0 /\ ti = 0
    /\ img = NoImage
    /\ pixels = [b \in Buffers |-> <<>>]
    /\ ei = 0 /\ bi = 0
    /\ bands = {}
    /\ barriers = <<>>
    /\ mainGen = 0
    /\ applied = <<>> /\ spawned = <<>> /\ swaps = 0 /\ saved = <<>>

\* the tasks of a RunParallelFiles run
Files == 1 .. MaxFiles
\* RunParallelFiles is not running
NoFiles ==
    /\ state = 0 /\ queue = <<>> /\ threadCount = 0 /\ numFiles = 0
    /\ started = 0 /\ wgFiles = 0
    /\ taken = [t \in Threads |-> NilTask]
    /\ dequeued = <<>>
    /\ ran = [k \in Files |-> 0]

\* no pixel values are held
NoPixels ==
    /\ bounds = [w |-> 0, h |-> 0]
    /\ rgba = [In |-> <<>>, Out |-> <<>>]
    /\ kernels = <<>> /\ ki = 0
    /\ slices = {} /\ nslices = 0
    /\ phases = <<>> /\ written = <<>>

\* a deque alone: no pool, no barrier, no image
InitDeque == InitHeap /\ NoPool /\ NoBarrier /\ NoBSP /\ NoFiles /\ NoPixels

Goto(t, l) == pc' = [pc EXCEPT ![t] = l]
SetFrame(t, f) == frame' = [frame EXCEPT ![t] = f]
\* a nil pointer dereference: the runtime panics and the process exits
Panic(t) ==
    /\ crashed' = TRUE
    /\ Goto(t, "panic")
    /\ UNCHANGED <<head, tail, next, frame, result, log, poolVars, barrierVars, bspVars, filesVars, pixelVars>>

(* ------------------------------- Push ---------------------------------- *)
CallPush(t, d, k) ==
    /\ Goto(t, "push33")
    /\ SetFrame(t, [NoFrame EXCEPT !.d = d, !.newNode = NodeOf(k)])

\* tail := LoadPointer(&d.tail)
Push33(t) ==
    /\ pc[t] = "push33" /\ ~crashed
    /\ SetFrame(t, [frame[t] EXCEPT !.tail = tail[frame[t].d]])
    /\ Goto(t, "push34")
    /\ UNCHANGED <<head, tail, next, result, log, calls, crashed, poolVars, barrierVars, bspVars, filesVars, pixelVars>>

\* next := LoadPointer(&tail.next)
Push34(t) ==
    /\ pc[t] = "push34" /\ ~crashed
    /\ SetFrame(t, [frame[t] EXCEPT !.next = next[frame[t].tail]])
    /\ Goto(t, "push37")
    /\ UNCHANGED <<head, tail, next, result, log, calls, crashed, poolVars, barrierVars, bspVars, filesVars, pixelVars>>

\* if tail == LoadPointer(&d.tail) { if next == nil {..} else {..} }
Push37(t) ==
    /\ pc[t] = "push37" /\ ~crashed
    /\ IF frame[t].tail = tail[frame[t].d]
         THEN IF frame[t].next = Nil THEN Goto(t, "push41") ELSE Goto(t, "push47")
         ELSE Goto(t, "push33")
    /\ UNCHANGED <<head, tail, next, frame, result, log, calls, crashed, poolVars, barrierVars, bspVars, filesVars, pixelVars>>

\* if CompareAndSwapPointer(&tail.next, nil, newNode)
Push41(t) ==
    /\ pc[t] = "push41" /\ ~crashed
    /\ IF next[frame[t].tail] = Nil
         THEN /\ next' = [next EXCEPT ![frame[t].tail] = frame[t].newNode]
              /\ Goto(t, "push43")
         ELSE /\ next' = next
              /\ Goto(t, "push33")
    /\ UNCHANGED <<head, tail, frame, result, log, calls, crashed, poolVars, barrierVars, bspVars, filesVars, pixelVars>>

\* CompareAndSwapPointer(&d.tail, tail, newNode); return
Push43(t) ==
    /\ pc[t] = "push43" /\ ~crashed
    /\ tail' = IF tail[frame[t].d] = frame[t].tail
                 THEN [tail EXCEPT ![frame[t].d] = frame[t].newNode]
                 ELSE tail
    /\ log' = Append(log, Event("Push", TaskOf(frame[t].newNode)))
    /\ Goto(t, "pushRet")
    /\ UNCHANGED <<head, next, frame, result, calls, crashed, poolVars, barrierVars, bspVars, filesVars, pixelVars>>

\* next != nil: CompareAndSwapPointer(&d.tail, tail, next), then retry
Push47(t) ==
    /\ pc[t] = "push47" /\ ~crashed
    /\ tail' = IF tail[frame[t].d] = frame[t].tail
                 THEN [tail EXCEPT ![frame[t].d] = frame[t].next]
                 ELSE tail
    /\ Goto(t, "push33")
    /\ UNCHANGED <<head, next, frame, result, log, calls, crashed, poolVars, barrierVars, bspVars, filesVars, pixelVars>>

(* -------------------------------- Pop ---------------------------------- *)
CallPop(t, d) ==
    /\ Goto(t, "pop56")
    /\ SetFrame(t, [NoFrame EXCEPT !.d = d])

\* tail := LoadPointer(&d.tail)
Pop56(t) ==
    /\ pc[t] = "pop56" /\ ~crashed
    /\ SetFrame(t, [frame[t] EXCEPT !.tail = tail[frame[t].d]])
    /\ Goto(t, "pop57")
    /\ UNCHANGED <<head, tail, next, result, log, calls, crashed, poolVars, barrierVars, bspVars, filesVars, pixelVars>>

\* if tail == head (mutant: Pop reports empty whatever the deque holds)
PopEmptyAlways(t) == TRUE
PopEmpty(t) == frame[t].tail = head[frame[t].d]

\* head := LoadPointer(&d.head); if tail == head { return nil, false }
Pop57(t) ==
    /\ pc[t] = "pop57" /\ ~crashed
    /\ IF PopEmpty(t)
         THEN /\ result' = [result EXCEPT ![t] = [task |-> NilTask, ok |-> FALSE]]
              /\ SetFrame(t, [frame[t] EXCEPT !.head = head[frame[t].d]])
              /\ Goto(t, "popRet")
         ELSE /\ result' = result
              /\ SetFrame(t, [frame[t] EXCEPT !.head = head[frame[t].d]])
              /\ Goto(t, "fp107")
    /\ UNCHANGED <<head, tail, next, log, calls, crashed, poolVars, barrierVars, bspVars, filesVars, pixelVars>>

\* findPrevious(tail): current := LoadPointer(&d.head)
FindPrevious107(t) ==
    /\ pc[t] = "fp107" /\ ~crashed
    /\ SetFrame(t, [frame[t] EXCEPT !.current = head[frame[t].d]])
    /\ Goto(t, "fp109")
    /\ UNCHANGED <<head, tail, next, result, log, calls, crashed, poolVars, barrierVars, bspVars, filesVars, pixelVars>>

\* next := LoadPointer(&current.next); next == target: return current (prev);
\* next == nil: return nil (Pop restarts); otherwise current = next
FindPrevious109(t) ==
    /\ pc[t] = "fp109" /\ ~crashed
    /\ IF frame[t].current = Nil
         THEN Panic(t)
         ELSE /\ IF next[frame[t].current] = frame[t].tail
                   THEN /\ SetFrame(t, [frame[t] EXCEPT !.next = next[frame[t].current]])
                        /\ Goto(t, "pop74")
                   ELSE IF next[frame[t].current] = Nil
                          THEN /\ SetFrame(t, [frame[t] EXCEPT !.next = Nil])
                               /\ Goto(t, "pop56")
                          ELSE /\ SetFrame(t, [frame[t] EXCEPT !.next = next[frame[t].current],
                                                            !.current = next[frame[t].current]])
                               /\ Goto(t, "fp109")
              /\ UNCHANGED <<head, tail, next, result, log, crashed, filesVars, pixelVars>>
    /\ UNCHANGED <<calls, poolVars, barrierVars, bspVars, filesVars, pixelVars>>

\* Pop's return value on success: tail.task (mutant: the predecessor's task)
PopResultPrev(t) == TaskOf(frame[t].current)
PopResult(t) == TaskOf(frame[t].tail)

\* Pop's successful CompareAndSwapPointer(&d.tail, tail, prev) writes d.tail
\* and nothing else (mutant: the swap is made on d.head)
PopSwapHead(t) ==
    /\ head' = [head EXCEPT ![frame[t].d] = frame[t].current]
    /\ tail' = tail
PopSwap(t) ==
    /\ tail' = [tail EXCEPT ![frame[t].d] = frame[t].current]
    /\ head' = head

\* the next links after Pop's swap: prev.next is left pointing at the popped
\* node (mutant: Pop unlinks the node it returns)
PopLinksCleared(t) == [next EXCEPT ![frame[t].current] = Nil]
PopLinks(t) == next

\* if CompareAndSwapPointer(&d.tail, tail, prev) { return tail.task, true }
Pop74(t) ==
    /\ pc[t] = "pop74" /\ ~crashed
    /\ IF tail[frame[t].d] = frame[t].tail
         THEN /\ PopSwap(t)
              /\ next' = PopLinks(t)
              /\ result' = [result EXCEPT ![t] = [task |-> PopResult(t), ok |-> TRUE]]
              /\ log' = Append(log, Event("Pop", PopResult(t)))
              /\ Goto(t, "popRet")
         ELSE /\ UNCHANGED <<head, tail, next, result, log>>
              /\ Goto(t, "pop56")
    /\ UNCHANGED <<frame, calls, crashed, poolVars, barrierVars, bspVars, filesVars, pixelVars>>

(* ------------------------------- Steal --------------------------------- *)
CallSteal(t, d) ==
    /\ Goto(t, "steal83")
    /\ SetFrame(t, [NoFrame EXCEPT !.d = d])

\* head := LoadPointer(&d.head)
Steal83(t) ==
    /\ pc[t] = "steal83" /\ ~crashed
    /\ SetFrame(t, [frame[t] EXCEPT !.head = head[frame[t].d]])
    /\ Goto(t, "steal84")
    /\ UNCHANGED <<head, tail, next, result, log, calls, crashed, poolVars, barrierVars, bspVars, filesVars, pixelVars>>

\* tail := LoadPointer(&d.tail)
Steal84(t) ==
    /\ pc[t] = "steal84" /\ ~crashed
    /\ SetFrame(t, [frame[t] EXCEPT !.tail = tail[frame[t].d]])
    /\ Goto(t, "steal85")
    /\ UNCHANGED <<head, tail, next, result, log, calls, crashed, poolVars, barrierVars, bspVars, filesVars, pixelVars>>

\* next := LoadPointer(&head.next): dereferences head
Steal85(t) ==
    /\ pc[t] = "steal85" /\ ~crashed
    /\ IF frame[t].head = Nil
         THEN Panic(t)
         ELSE /\ SetFrame(t, [frame[t] EXCEPT !.next = next[frame[t].head]])
              /\ Goto(t, "steal89")
              /\ UNCHANGED <<head, tail, next, result, log, crashed, filesVars, pixelVars>>
    /\ UNCHANGED <<calls, poolVars, barrierVars, bspVars, filesVars, pixelVars>>

\* if head != LoadPointer(&d.head) { continue }; if head == tail { return nil, false }
Steal89(t) ==
    /\ pc[t] = "steal89" /\ ~crashed
    /\ IF frame[t].head # head[frame[t].d]
         THEN /\ Goto(t, "steal83")
              /\ result' = result
         ELSE IF frame[t].head = frame[t].tail
                THEN /\ result' = [result EXCEPT ![t] = [task |-> NilTask, ok |-> FALSE]]
                     /\ Goto(t, "stealRet")
                ELSE /\ result' = result
                     /\ Goto(t, "steal99")
    /\ UNCHANGED <<head, tail, next, frame, log, calls, crashed, poolVars, barrierVars, bspVars, filesVars, pixelVars>>

\* Steal's return value on success: next.task (mutant: the old head's task)
StealResultHead(t) == TaskOf(frame[t].head)
StealResult(t) == TaskOf(frame[t].next)

\* if CompareAndSwapPointer(&d.head, head, next) { return next.task, true }:
\* the return dereferences next
Steal99(t) ==
    /\ pc[t] = "steal99" /\ ~crashed
    /\ IF head[frame[t].d] = frame[t].head
         THEN /\ head' = [head EXCEPT ![frame[t].d] = frame[t].next]
              /\ IF frame[t].next = Nil
                   THEN /\ crashed' = TRUE
                        /\ Goto(t, "panic")
                        /\ UNCHANGED <<result, log, filesVars, pixelVars>>
                   ELSE /\ result' = [result EXCEPT ![t] = [task |-> StealResult(t), ok |-> TRUE]]
                        /\ log' = Append(log, Event("Steal", StealResult(t)))
                        /\ Goto(t, "stealRet")
                        /\ UNCHANGED crashed
         ELSE /\ Goto(t, "steal83")
              /\ UNCHANGED <<head, result, log, crashed, filesVars, pixelVars>>
    /\ UNCHANGED <<tail, next, frame, calls, poolVars, barrierVars, bspVars, filesVars, pixelVars>>

\* IsEmpty: head == tail
IsEmpty(d) == head[d] = tail[d]

\* one step inside Push, Pop (with findPrevious) and Steal
PushStep(t) ==
    Push33(t) \/ Push34(t) \/ Push37(t) \/ Push41(t) \/ Push43(t) \/ Push47(t)
PopStep(t) ==
    Pop56(t) \/ Pop57(t) \/ FindPrevious107(t) \/ FindPrevious109(t) \/ Pop74(t)
StealStep(t) ==
    Steal83(t) \/ Steal84(t) \/ Steal85(t) \/ Steal89(t) \/ Steal99(t)

(* Pop and Steal run alone (no other thread takes a step) from the current  *)
(* state of deque d: the task delivered, "empty", "spin" (the retry loop    *)
(* never ends) or "panic" (nil dereference).                                *)
Outcome(kind, k) == [kind |-> kind, task |-> k]

\* findPrevious from a non-nil current: the predecessor of target, or nil
RECURSIVE SeqFindPrevious(_, _)
SeqFindPrevious(current, target) ==
    IF next[current] = target THEN current
    ELSE IF next[current] = Nil THEN Nil
    ELSE SeqFindPrevious(next[current], target)

SeqPop(d) ==
    IF tail[d] = head[d] THEN Outcome("empty", NilTask)
    ELSE IF head[d] = Nil THEN Outcome("panic", NilTask)
    ELSE IF SeqFindPrevious(head[d], tail[d]) = Nil THEN Outcome("spin", NilTask)
    ELSE Outcome("task", TaskOf(tail[d]))

SeqSteal(d) ==
    IF head[d] = Nil THEN Outcome("panic", NilTask)
    ELSE IF head[d] = tail[d] THEN Outcome("empty", NilTask)
    ELSE IF next[head[d]] = Nil THEN Outcome("panic", NilTask)
    ELSE Outcome("task", TaskOf(next[head[d]]))

\* Push of node n on deque d run alone, from the pointers tl (tails) and nx
\* (next links): help the tail forward while tail.next is set, then link n
\* after the tail and advance the tail to it
RECURSIVE PushAlone(_, _, _, _)
PushAlone(tl, nx, d, n) ==
    IF nx[tl[d]] = Nil
      THEN [tail |-> [tl EXCEPT ![d] = n], next |-> [nx EXCEPT ![tl[d]] = n]]
      ELSE PushAlone([tl EXCEPT ![d] = nx[tl[d]]], nx, d, n)
SeqPush(d, n) == PushAlone(tail, next, d, n)

(* ---------------- a single deque: one owner, MaxThieves thieves -------- *)
Pushed == Cardinality({i \in 1 .. Len(log) : log[i].op = "Push"})

\* the owner pushes the next task
OwnerPush ==
    /\ pc[Owner] = "idle" /\ ~crashed
    /\ Pushed < MaxTasks
    /\ CallPush(Owner, 0, Pushed + 1)
    /\ UNCHANGED <<head, tail, next, result, log, calls, crashed, poolVars, barrierVars, bspVars, filesVars, pixelVars>>

\* the owner calls Pop
OwnerPop(cap) ==
    /\ pc[Owner] = "idle" /\ ~crashed
    /\ calls < cap
    /\ calls' = calls + 1
    /\ CallPop(Owner, 0)
    /\ UNCHANGED <<head, tail, next, result, log, crashed, poolVars, barrierVars, bspVars, filesVars, pixelVars>>

\* a thief calls Steal
ThiefSteal(t, cap) ==
    /\ pc[t] = "idle" /\ ~crashed
    /\ calls < cap
    /\ calls' = calls + 1
    /\ CallSteal(t, 0)
    /\ UNCHANGED <<head, tail, next, result, log, crashed, poolVars, barrierVars, bspVars, filesVars, pixelVars>>

\* the caller takes the result of its finished call
Return(t) ==
    /\ pc[t] \in {"pushRet", "popRet", "stealRet"} /\ ~crashed
    /\ Goto(t, "idle")
    /\ SetFrame(t, NoFrame)
    /\ result' = [result EXCEPT ![t] = NoResult]
    /\ UNCHANGED <<head, tail, next, log, calls, crashed, poolVars, barrierVars, bspVars, filesVars, pixelVars>>

NextDeque ==
    \/ OwnerPush
    \/ OwnerPop(MaxOps)
    \/ \E t \in Thieves : ThiefSteal(t, MaxOps)
    \/ PushStep(Owner)
    \/ PopStep(Owner)
    \/ \E t \in Thieves : StealStep(t)
    \/ \E t \in {Owner} \cup Thieves : Return(t)

SpecDeque == InitDeque /\ [][NextDeque]_vars

(* ---------------- a single deque, the owner alone (no thieves) --------- *)
NextOwner ==
    \/ OwnerPush
    \/ OwnerPop(MaxTasks + 1)
    \/ PushStep(Owner)
    \/ PopStep(Owner)
    \/ Return(Owner)

SpecOwner == InitDeque /\ [][NextOwner]_vars

(* ------- a single deque, pushes then steals, never a Pop --------------- *)
InCall(t) == pc[t] # "idle"

\* the owner pushes the next task while no Steal is running: Push runs alone
PushBeforeSteal ==
    /\ \A t \in Thieves : ~InCall(t)
    /\ ~crashed
    /\ Pushed < MaxTasks
    /\ tail' = SeqPush(0, NodeOf(Pushed + 1)).tail
    /\ next' = SeqPush(0, NodeOf(Pushed + 1)).next
    /\ log' = Append(log, Event("Push", Pushed + 1))
    /\ UNCHANGED <<head, pc, frame, result, calls, crashed, poolVars, barrierVars, bspVars, filesVars, pixelVars>>

\* a thief calls Steal after the owner's pushes have returned
StealAfterPush(t) == ThiefSteal(t, MaxTasks + 1)

NextSteal ==
    \/ PushBeforeSteal
    \/ \E t \in Thieves : StealAfterPush(t)
    \/ \E t \in Thieves : StealStep(t)
    \/ \E t \in Thieves : Return(t)

SpecSteal == InitDeque /\ [][NextSteal]_vars

(* --------------------- RunBSPSteal: the worker pool -------------------- *)
Workers == 0 .. (numWorkers - 1)

\* workers[i] = NewWorker(i) for i < numWorkers; no goroutine runs yet
InitPool ==
    /\ InitHeap /\ NoBarrier /\ NoBSP /\ NoFiles /\ NoPixels
    /\ numWorkers \in 1 .. MaxWorkers
    /\ numTasks \in 0 .. MaxPoolTasks
    /\ seeded = 0
    /\ workerIndex = 0
    /\ wg = 0
    /\ victim = [t \in Threads |-> 0]
    /\ task = [t \in Threads |-> NilTask]
    /\ processed = [k \in Tasks |-> 0]

\* workerIndex = (workerIndex + 1) % numWorkers (mutant: it never advances)
SameWorkerIndex(i, n) == i
NextWorkerIndex(i, n) == (i + 1) % n
\* wg.Add(numWorkers) (mutant: one worker is not counted)
WaitGroupAddLess(n) == n - 1
WaitGroupAdd(n) == n
\* if !ok after w.deque.Pop() (mutant: the result is taken for a task anyway)
GotTaskAlways(w) == TRUE
GotTask(w) == result[w].ok

\* reader.Decode(&task) succeeds: workers[workerIndex].deque.Push(&task), then
\* workerIndex = (workerIndex + 1) % numWorkers.  No goroutine exists yet, so
\* Push runs alone.
Decode ==
    /\ pc[Main] = "idle" /\ ~crashed
    /\ seeded < numTasks
    /\ tail' = SeqPush(workerIndex, NodeOf(seeded + 1)).tail
    /\ next' = SeqPush(workerIndex, NodeOf(seeded + 1)).next
    /\ log' = Append(log, Event("Push", seeded + 1))
    /\ workerIndex' = NextWorkerIndex(workerIndex, numWorkers)
    /\ seeded' = seeded + 1
    /\ UNCHANGED <<head, pc, frame, result, calls, crashed,
                   numWorkers, numTasks, wg, victim, task, processed, barrierVars, bspVars, filesVars, pixelVars>>

\* Decode fails (end of effects.txt): wg.Add(numWorkers), one goroutine per worker
Spawn ==
    /\ pc[Main] = "idle" /\ ~crashed
    /\ seeded = numTasks
    /\ wg' = WaitGroupAdd(numWorkers)
    /\ pc' = [t \in Threads |-> IF t \in Workers THEN "w132"
                                 ELSE IF t = Main THEN "m142" ELSE pc[t]]
    /\ UNCHANGED <<head, tail, next, frame, result, log, calls, crashed,
                   numWorkers, numTasks, seeded, workerIndex, victim, task, processed,
                   barrierVars, bspVars, filesVars, pixelVars>>

\* wg.Wait() returns once every worker has called wg.Done()
WaitReturns ==
    /\ pc[Main] = "m142" /\ ~crashed
    /\ wg = 0
    /\ Goto(Main, "returned")
    /\ UNCHANGED <<head, tail, next, frame, result, log, calls, crashed, poolVars, barrierVars, bspVars, filesVars, pixelVars>>

\* task, ok := w.deque.Pop()
WorkerPop(w) ==
    /\ pc[w] = "w132" /\ ~crashed
    /\ CallPop(w, w)
    /\ UNCHANGED <<head, tail, next, result, log, calls, crashed, poolVars, barrierVars, bspVars, filesVars, pixelVars>>

\* if !ok { stealWork(w, workers) } else processImageBSP(*task, ..)
WorkerPopped(w) ==
    /\ pc[w] = "popRet" /\ ~crashed
    /\ IF GotTask(w)
         THEN /\ task' = [task EXCEPT ![w] = result[w].task]
              /\ Goto(w, "w138")
              /\ UNCHANGED victim
         ELSE /\ victim' = [victim EXCEPT ![w] = 0]
              /\ Goto(w, "sw38")
              /\ UNCHANGED task
    /\ SetFrame(w, NoFrame)
    /\ result' = [result EXCEPT ![w] = NoResult]
    /\ UNCHANGED <<head, tail, next, log, calls, crashed,
                   numWorkers, numTasks, seeded, workerIndex, wg, processed, barrierVars, bspVars, filesVars, pixelVars>>

\* if victim.id != thief.id is false: the victim is the thief itself
\* (mutant: the thief steals from its own deque too)
IsThiefNever(v, w) == FALSE
IsThief(v, w) == v = w
\* the range over victims is exhausted: stealWork returns nil
\* (mutant: the last worker is never tried)
PastLastVictimEarly(v, n) == v >= n - 1
PastLastVictim(v, n) == v = n

\* stealWork: for _, victim := range victims { if victim.id != thief.id { Steal } };
\* past the last victim it returns nil and the worker breaks (defer wg.Done())
StealWork38(w) ==
    /\ pc[w] = "sw38" /\ ~crashed
    /\ IF PastLastVictim(victim[w], numWorkers)
         THEN /\ wg' = wg - 1
              /\ Goto(w, "exited")
              /\ UNCHANGED <<victim, frame>>
         ELSE IF IsThief(victim[w], w)
                THEN /\ victim' = [victim EXCEPT ![w] = victim[w] + 1]
                     /\ UNCHANGED <<pc, wg, frame, filesVars, pixelVars>>
                ELSE /\ CallSteal(w, victim[w])
                     /\ UNCHANGED <<victim, wg, filesVars, pixelVars>>
    /\ UNCHANGED <<head, tail, next, result, log, calls, crashed,
                   numWorkers, numTasks, seeded, workerIndex, task, processed, barrierVars, bspVars, filesVars, pixelVars>>

\* if task, ok := victim.deque.Steal(); ok { return task }
StealWork40(w) ==
    /\ pc[w] = "stealRet" /\ ~crashed
    /\ IF result[w].ok
         THEN /\ task' = [task EXCEPT ![w] = result[w].task]
              /\ Goto(w, "w138")
              /\ UNCHANGED victim
         ELSE /\ victim' = [victim EXCEPT ![w] = victim[w] + 1]
              /\ Goto(w, "sw38")
              /\ UNCHANGED task
    /\ SetFrame(w, NoFrame)
    /\ result' = [result EXCEPT ![w] = NoResult]
    /\ UNCHANGED <<head, tail, next, log, calls, crashed,
                   numWorkers, numTasks, seeded, workerIndex, wg, processed, barrierVars, bspVars, filesVars, pixelVars>>

\* processImageBSP(*task, numWorkers): dereferences task
ProcessImage(w) ==
    /\ pc[w] = "w138" /\ ~crashed
    /\ IF task[w] = NilTask
         THEN /\ crashed' = TRUE
              /\ Goto(w, "panic")
              /\ UNCHANGED <<processed, task, filesVars, pixelVars>>
         ELSE /\ processed' = [processed EXCEPT ![task[w]] = @ + 1]
              /\ task' = [task EXCEPT ![w] = NilTask]
              /\ Goto(w, "w132")
              /\ UNCHANGED crashed
    /\ UNCHANGED <<head, tail, next, frame, result, log, calls,
                   numWorkers, numTasks, seeded, workerIndex, wg, victim, barrierVars, bspVars, filesVars, pixelVars>>

MainStep == Decode \/ Spawn \/ WaitReturns
WorkerStep(w) ==
    \/ WorkerPop(w) \/ PopStep(w) \/ WorkerPopped(w)
    \/ StealWork38(w) \/ StealStep(w) \/ StealWork40(w)
    \/ ProcessImage(w)

NextPool == MainStep \/ \E w \in Deques : WorkerStep(w)

SpecPool == InitPool /\ [][NextPool]_vars

\* the Go scheduler is preemptive: every runnable goroutine keeps taking steps
FairPool ==
    /\ SpecPool
    /\ WF_vars(MainStep)
    /\ \A w \in Deques : WF_vars(WorkerStep(w))

\* how many times processImageBSP was called on task k
Processed(k) == processed[k]

(* ------------------------------ Barrier -------------------------------- *)
(* threshold participants, threads 0 .. threshold-1, each calling Wait once *)
(* per phase on the same Barrier.  All of Wait runs under the mutex, which  *)
(* cond.Wait() releases while parked and takes again before it returns.     *)
Participants == 0 .. (threshold - 1)

\* NewBarrier(threshold): count and generation start at 0
InitBarrier ==
    /\ InitHeap /\ NoPool /\ NoBSP /\ NoFiles /\ NoPixels
    /\ threshold \in 1 .. (MaxWorkers + 1)
    /\ count = 0
    /\ generation = 0
    /\ mutex = Free
    /\ notify = {}
    /\ localGen = [t \in Threads |-> 0]
    /\ entered = [t \in Threads |-> 0]
    /\ returned = [t \in Threads |-> 0]

\* b.generation++ (mutant: a generation is skipped)
NextGenerationSkip(g) == g + 2
NextGeneration(g) == g + 1
\* if b.count == b.threshold (mutant: one arrival early)
IsLastArrivalEarly(c, th) == c >= th - 1
IsLastArrival(c, th) == c = th
\* for localGen == b.generation (mutant: a barrier without generations, which
\* waits for the counter to be reset)
StillWaitingOnCount(t) == count # 0
StillWaiting(t) == localGen[t] = generation
\* b.cond.Broadcast() wakes every thread parked in cond.Wait() (mutant:
\* Signal, which wakes one)
Signal == IF notify = {} THEN {} ELSE {CHOOSE q \in notify : TRUE}
Broadcast == notify

\* a participant calls Wait for its next phase
CallWait(t) ==
    /\ t \in Participants
    /\ pc[t] = "idle"
    /\ entered[t] < MaxPhases
    /\ entered' = [entered EXCEPT ![t] = @ + 1]
    /\ Goto(t, "b26")
    /\ UNCHANGED <<head, tail, next, frame, result, log, calls, crashed, poolVars, bspVars,
                   threshold, count, generation, mutex, notify, localGen, returned, filesVars, pixelVars>>

\* b.Lock()
Wait26(t) ==
    /\ pc[t] = "b26"
    /\ mutex = Free
    /\ mutex' = HeldBy(t)
    /\ Goto(t, "b29")
    /\ UNCHANGED <<head, tail, next, frame, result, log, calls, crashed, poolVars, bspVars,
                   threshold, count, generation, notify, localGen, entered, returned, filesVars, pixelVars>>

\* localGen := b.generation; b.count++; the arrival that makes count equal
\* threshold resets count, advances generation and broadcasts
Wait29(t) ==
    /\ pc[t] = "b29"
    /\ localGen' = [localGen EXCEPT ![t] = generation]
    /\ IF IsLastArrival(count + 1, threshold)
         THEN /\ count' = 0
              /\ generation' = NextGeneration(generation)
              /\ notify' = notify \ Broadcast
              /\ pc' = [q \in Threads |-> IF q = t THEN "b41"
                                           ELSE IF q \in Broadcast THEN "woken" ELSE pc[q]]
         ELSE /\ count' = count + 1
              /\ Goto(t, "b37")
              /\ UNCHANGED <<generation, notify, filesVars, pixelVars>>
    /\ UNCHANGED <<head, tail, next, frame, result, log, calls, crashed, poolVars, bspVars,
                   threshold, mutex, entered, returned, filesVars, pixelVars>>

\* for localGen == b.generation { b.cond.Wait() }: park and release the mutex
Wait37(t) ==
    /\ pc[t] = "b37"
    /\ IF StillWaiting(t)
         THEN /\ notify' = notify \cup {t}
              /\ mutex' = Free
              /\ Goto(t, "parked")
         ELSE /\ Goto(t, "b41")
              /\ UNCHANGED <<notify, mutex, filesVars, pixelVars>>
    /\ UNCHANGED <<head, tail, next, frame, result, log, calls, crashed, poolVars, bspVars,
                   threshold, count, generation, localGen, entered, returned, filesVars, pixelVars>>

\* cond.Wait() after the broadcast: take the mutex again, then test the loop
Wait38(t) ==
    /\ pc[t] = "woken"
    /\ mutex = Free
    /\ mutex' = HeldBy(t)
    /\ Goto(t, "b37")
    /\ UNCHANGED <<head, tail, next, frame, result, log, calls, crashed, poolVars, bspVars,
                   threshold, count, generation, notify, localGen, entered, returned, filesVars, pixelVars>>

\* defer b.Unlock(): Wait returns
Wait41(t) ==
    /\ pc[t] = "b41"
    /\ mutex' = Free
    /\ returned' = [returned EXCEPT ![t] = @ + 1]
    /\ Goto(t, "idle")
    /\ UNCHANGED <<head, tail, next, frame, result, log, calls, crashed, poolVars, bspVars,
                   threshold, count, generation, notify, localGen, entered, filesVars, pixelVars>>

BarrierStep(t) ==
    \/ CallWait(t) \/ Wait26(t) \/ Wait29(t) \/ Wait37(t) \/ Wait38(t) \/ Wait41(t)

NextBarrier == \E t \in Threads : BarrierStep(t)

SpecBarrier == InitBarrier /\ [][NextBarrier]_vars

\* every participant keeps being scheduled
FairBarrier == SpecBarrier /\ \A t \in Threads : WF_vars(BarrierStep(t))

\* the calls of Wait by t that have counted themselves in (b.count++)
Arrived(t) == IF pc[t] \in {"b26", "b29"} THEN entered[t] - 1 ELSE entered[t]
\* the calls of Wait by t that have left the wait (released)
Released(t) == IF pc[t] = "b41" THEN returned[t] + 1 ELSE returned[t]

(* ------------- RunBSP: one image at a time, one phase per effect -------- *)
(* The goroutine calling RunBSP is Main.  A pixel row is a term: the row of *)
(* the decoded file, a zero row, or an effect applied to the rows it read   *)
(* (rows y-1, y, y+1 for a convolution, row y for grayscale).               *)
\* the cases of the switch in applyEffectsSliced, and an identifier outside them
EffectIds == {"S", "E", "B", "G"}
UnknownId == "X"
KnownEffectAny(e) == TRUE
KnownEffect(e) == e \in EffectIds

\* the sequences over S of length at most n
RECURSIVE SeqsUpTo(_, _)
SeqsUpTo(S, n) ==
    IF n = 0 THEN {<<>>}
    ELSE LET R == SeqsUpTo(S, n - 1)
         IN  R \cup {Append(r, x) : r \in {q \in R : Len(q) = n - 1}, x \in S}

RECURSIVE TotalEffects(_)
TotalEffects(l) == IF l = <<>> THEN 0 ELSE Len(Head(l)) + TotalEffects(Tail(l))

\* the identifiers the task lists are drawn from: a convolution (E and B run
\* the code of S with another kernel), grayscale, and an unknown identifier
InputIds == {"S", "G", UnknownId}
\* the effects.txt files: at most MaxImages tasks holding at most MaxEffects
\* effect identifiers in all
EffectLists == SeqsUpTo(InputIds, MaxEffects)
TaskLists == {l \in SeqsUpTo(EffectLists, MaxImages) : TotalEffects(l) <= MaxEffects}
\* config.ThreadCount is a command-line integer: negative, zero or positive
ThreadCounts == -1 .. MaxWorkers

heapVars == <<head, tail, next, frame, result, log, calls>>

\* reader.Decode has filled tasks; nothing is loaded yet
InitRunBSP ==
    /\ head = [d \in Deques |-> Dummy(d)]
    /\ tail = [d \in Deques |-> Dummy(d)]
    /\ next = [n \in Nodes |-> Nil]
    /\ pc = [t \in Threads |-> IF t = Main THEN "rb75" ELSE "idle"]
    /\ frame = [t \in Threads |-> NoFrame]
    /\ result = [t \in Threads |-> NoResult]
    /\ log = <<>> /\ calls = 0 /\ crashed = FALSE
    /\ NoPool /\ NoBarrier /\ NoFiles /\ NoPixels
    /\ tasks \in TaskLists
    /\ numThreads \in ThreadCounts
    /\ ti = 0
    /\ img = NoImage
    /\ pixels = [b \in Buffers |-> <<>>]
    /\ ei = 0 /\ bi = 0
    /\ bands = {}
    /\ barriers = <<>>
    /\ mainGen = 0
    /\ applied = <<>> /\ spawned = <<>> /\ swaps = 0 /\ saved = <<>>

\* pixel rows
Zero == [op |-> "zero", row |-> 0, args |-> <<>>]
\* Load: inImg holds the decoded file, outImg = image.NewRGBA64(bounds) is zero
Original(h) == [y \in 1 .. h |-> [op |-> "in", row |-> y - 1, args |-> <<>>]]
Blank(h) == [y \in 1 .. h |-> Zero]
\* the row y of a buffer; convolve skips the neighbours outside the bounds
RowAt(rows, y) == IF y < 0 \/ y >= Len(rows) THEN Zero ELSE rows[y + 1]
\* convolve(x, y, kernel) over a row, for the kernel of effect e
Convolve(e, rows, y) ==
    [op |-> e, row |-> y, args |-> <<RowAt(rows, y - 1), RowAt(rows, y), RowAt(rows, y + 1)>>]
\* the grayscale of a row
Grayscale(rows, y) == [op |-> "G", row |-> y, args |-> <<RowAt(rows, y)>>]
EffectRow(e, rows, y) == IF e = "G" THEN Grayscale(rows, y) ELSE Convolve(e, rows, y)

\* Go's integer division truncates toward zero (a >= 0)
GoDiv(a, b) == IF b > 0 THEN a \div b ELSE 0 - (a \div (0 - b))
\* sliceHeight := height / numThreads
SliceHeight(h, n) == GoDiv(h, n)
\* start := bounds.Min.Y + i*sliceHeight
BandStart(i, h, n) == i * SliceHeight(h, n)
\* end := start + sliceHeight; if i == numThreads-1 { end = bounds.Max.Y }
\* (mutant: no clamp of the last band)
BandEndNoClamp(i, h, n) == BandStart(i, h, n) + SliceHeight(h, n)
BandEnd(i, h, n) == IF i = n - 1 THEN h ELSE BandStart(i, h, n) + SliceHeight(h, n)

\* for i := 0; i < numThreads; i++ { go func ... } (mutant: one band fewer)
MoreBandsFewer(i, n) == i < n - 1
MoreBands(i, n) == i < n
\* NewBarrier(numThreads + 1) (mutant: the launching thread is not counted)
BarrierThresholdBands(n) == n
BarrierThreshold(n) == n + 1
NewBarrier(th) == [count |-> 0, threshold |-> th, generation |-> 0]
\* Barrier.Wait up to its test of the count, run under the mutex: count++,
\* and the arrival that completes the phase resets count and advances generation
Arrive(b) ==
    IF IsLastArrival(b.count + 1, b.threshold)
      THEN [b EXCEPT !.count = 0, !.generation = NextGeneration(@)]
      ELSE [b EXCEPT !.count = @ + 1]

\* if i < len(effects)-1 { img.SwapBuffers() } (mutant: swap after every effect)
SwapAlways(i, n) == TRUE
SwapAfter(i, n) == i < n - 1
\* Save: saveImg = img.Out if EffectsApplied, else img.In (mutant: always Out)
SaveImgOut == img.Out
SaveImg == IF img.EffectsApplied THEN img.Out ELSE img.In

\* for _, task := range tasks: the index of the task after task i
\* (mutant: every other task)
NextTaskSkip(i) == i + 2
NextTask(i) == i + 1
\* the Effects of the task being processed, and the phase in progress
Effects == tasks[ti]
Phase == Len(barriers)

\* a panic in the goroutine running RunBSP: the process exits
PanicBSP ==
    /\ crashed' = TRUE
    /\ Goto(Main, "panic")

\* if len(tasks) == 0 { return }
RunBSP75 ==
    /\ pc[Main] = "rb75" /\ ~crashed
    /\ IF Len(tasks) = 0
         THEN Goto(Main, "returned") /\ ti' = ti
         ELSE Goto(Main, "rb82") /\ ti' = 1
    /\ UNCHANGED <<heapVars, crashed, poolVars, barrierVars, tasks, numThreads, img, pixels,
                   ei, bi, bands, barriers, mainGen, applied, spawned, swaps, saved, filesVars, pixelVars>>

\* for _, task := range tasks { processImageBSP(task, numThreads) }
RunBSP82 ==
    /\ pc[Main] = "rb82" /\ ~crashed
    /\ IF ti <= Len(tasks) THEN Goto(Main, "pi150") ELSE Goto(Main, "returned")
    /\ UNCHANGED <<heapVars, crashed, poolVars, barrierVars, tasks, numThreads, ti, img,
                   pixels, ei, bi, bands, barriers, mainGen, applied, spawned, swaps, saved, filesVars, pixelVars>>

\* img, err := png.Load(inPath): In holds the file's rows, Out is a zero image
Load ==
    /\ pc[Main] = "pi150" /\ ~crashed
    /\ \E h \in 0 .. MaxHeight :
          /\ img' = [In |-> 1, Out |-> 2, height |-> h, EffectsApplied |-> FALSE]
          /\ pixels' = [b \in Buffers |-> IF b = 1 THEN Original(h) ELSE Blank(h)]
    /\ swaps' = 0
    /\ spawned' = <<>>
    /\ Goto(Main, "pi155")
    /\ UNCHANGED <<heapVars, crashed, poolVars, barrierVars, tasks, numThreads, ti,
                   ei, bi, bands, barriers, mainGen, applied, saved, filesVars, pixelVars>>

\* if len(task.Effects) > 0 { img.EffectsApplied = true; applyEffectsSliced(..) }
ProcessImageBSP155 ==
    /\ pc[Main] = "pi155" /\ ~crashed
    /\ IF Len(Effects) > 0
         THEN /\ img' = [img EXCEPT !.EffectsApplied = TRUE]
              /\ ei' = 0
              /\ Goto(Main, "ae169")
         ELSE /\ UNCHANGED <<img, ei, filesVars, pixelVars>>
              /\ Goto(Main, "pi162")
    /\ UNCHANGED <<heapVars, crashed, poolVars, barrierVars, tasks, numThreads, ti, pixels,
                   bi, bands, barriers, mainGen, applied, spawned, swaps, saved, filesVars, pixelVars>>

\* for i, effect := range effects { switch effect {..}: an unknown identifier
\* panics; a known one calls BSPConvolution/BSPGrayscale, which computes
\* height / numThreads (a division by zero panics) and NewBarrier(numThreads+1)
ApplyEffect ==
    /\ pc[Main] = "ae169" /\ ~crashed
    /\ IF ei >= Len(Effects)
         THEN /\ Goto(Main, "pi162")
              /\ UNCHANGED <<crashed, bi, barriers, applied, spawned, filesVars, pixelVars>>
         ELSE IF ~KnownEffect(Effects[ei + 1]) \/ numThreads = 0
                THEN /\ PanicBSP
                     /\ UNCHANGED <<bi, barriers, applied, spawned, filesVars, pixelVars>>
                ELSE /\ barriers' = Append(barriers, NewBarrier(BarrierThreshold(numThreads)))
                     /\ applied' = Append(applied, [task |-> ti, index |-> ei,
                                                    effect |-> Effects[ei + 1],
                                                    In |-> img.In, Out |-> img.Out])
                     /\ bi' = 0
                     /\ spawned' = <<>>
                     /\ Goto(Main, "bsp173")
                     /\ UNCHANGED crashed
    /\ UNCHANGED <<heapVars, poolVars, barrierVars, tasks, numThreads, ti, img, pixels,
                   ei, bands, mainGen, swaps, saved, filesVars, pixelVars>>

\* for i := 0; i < numThreads; i++ { start, end; go func(startY, endY) {..} }.
\* BSPConvolution has a value receiver, so its goroutines hold the In and Out of
\* the call; BSPGrayscale has a pointer receiver, so its goroutines read img.In
\* and img.Out at each access.
SpawnBand ==
    /\ pc[Main] = "bsp173" /\ ~crashed
    /\ IF MoreBands(bi, numThreads)
         THEN /\ bands' = bands \cup
                    {[phase |-> Phase, id |-> bi, effect |-> applied[Phase].effect,
                      In |-> img.In, Out |-> img.Out,
                      y |-> BandStart(bi, img.height, numThreads),
                      end |-> BandEnd(bi, img.height, numThreads),
                      pc |-> "rows", localGen |-> 0]}
              /\ spawned' = Append(spawned, [start |-> BandStart(bi, img.height, numThreads),
                                             end |-> BandEnd(bi, img.height, numThreads)])
              /\ bi' = bi + 1
              /\ UNCHANGED pc
         ELSE /\ Goto(Main, "bsp195")
              /\ UNCHANGED <<bands, spawned, bi, filesVars, pixelVars>>
    /\ UNCHANGED <<heapVars, crashed, poolVars, barrierVars, tasks, numThreads, ti, img,
                   pixels, ei, barriers, mainGen, applied, swaps, saved, filesVars, pixelVars>>

\* b.cond.Broadcast() by the arrival that completes phase p: every band
\* goroutine parked in cond.Wait() on that barrier wakes, finds its localGen
\* behind the generation and returns, which ends the goroutine
Parked(p) == {g \in bands : g.phase = p /\ g.pc = "parked"}
Completes(b) == Arrive(b).generation # b.generation

\* the launching thread's barrier.Wait(): it returns at once if it is the last
\* arrival, and otherwise waits for the generation to change
MainArrive ==
    /\ pc[Main] = "bsp195" /\ ~crashed
    /\ mainGen' = barriers[Phase].generation
    /\ barriers' = [barriers EXCEPT ![Phase] = Arrive(@)]
    /\ IF Completes(barriers[Phase])
         THEN /\ Goto(Main, "ae183")
              /\ bands' = bands \ Parked(Phase)
         ELSE /\ Goto(Main, "bspWait")
              /\ UNCHANGED bands
    /\ UNCHANGED <<heapVars, crashed, poolVars, barrierVars, tasks, numThreads, ti, img,
                   pixels, ei, bi, applied, spawned, swaps, saved, filesVars, pixelVars>>

\* for localGen == b.generation { b.cond.Wait() }
MainLeave ==
    /\ pc[Main] = "bspWait" /\ ~crashed
    /\ barriers[Phase].generation # mainGen
    /\ Goto(Main, "ae183")
    /\ UNCHANGED <<heapVars, crashed, poolVars, barrierVars, bspVars, filesVars, pixelVars>>

\* if i < len(effects)-1 { img.SwapBuffers() }; the next iteration
AfterEffect ==
    /\ pc[Main] = "ae183" /\ ~crashed
    /\ IF SwapAfter(ei, Len(Effects))
         THEN /\ img' = [img EXCEPT !.In = img.Out, !.Out = img.In]
              /\ swaps' = swaps + 1
         ELSE UNCHANGED <<img, swaps, filesVars, pixelVars>>
    /\ ei' = ei + 1
    /\ Goto(Main, "ae169")
    /\ UNCHANGED <<heapVars, crashed, poolVars, barrierVars, tasks, numThreads, ti, pixels,
                   bi, bands, barriers, mainGen, applied, spawned, saved, filesVars, pixelVars>>

\* img.Save(outPath); processImageBSP returns to the range loop
Save ==
    /\ pc[Main] = "pi162" /\ ~crashed
    /\ saved' = Append(saved, [task |-> ti, image |-> pixels[SaveImg]])
    /\ ti' = NextTask(ti)
    /\ Goto(Main, "rb82")
    /\ UNCHANGED <<heapVars, crashed, poolVars, barrierVars, tasks, numThreads, img, pixels,
                   ei, bi, bands, barriers, mainGen, applied, spawned, swaps, filesVars, pixelVars>>

\* the buffers a band goroutine reads and writes
BandIn(g) == IF g.effect = "G" THEN img.In ELSE g.In
\* (mutant: the band goroutine writes into the buffer it reads)
BandOutIsIn(g) == IF g.effect = "G" THEN img.In ELSE g.In
BandOut(g) == IF g.effect = "G" THEN img.Out ELSE g.Out

\* for y := startY; y < endY; y++ { .. img.Out.Set(x, y, ..) }: one row
BandRow(i) ==
    \E g \in bands :
    /\ g.id = i
    /\ g.pc = "rows" /\ ~crashed
    /\ IF g.y < g.end
         THEN /\ pixels' = [pixels EXCEPT ![BandOut(g)][g.y + 1] =
                                EffectRow(g.effect, pixels[BandIn(g)], g.y)]
              /\ bands' = (bands \ {g}) \cup {[g EXCEPT !.y = @ + 1]}
         ELSE /\ bands' = (bands \ {g}) \cup {[g EXCEPT !.pc = "wait"]}
              /\ UNCHANGED pixels
    /\ UNCHANGED <<heapVars, pc, crashed, poolVars, barrierVars, tasks, numThreads, ti, img,
                   ei, bi, barriers, mainGen, applied, spawned, swaps, saved, filesVars, pixelVars>>

\* the band goroutine's barrier.Wait(): the last arrival broadcasts and returns
\* (the goroutine ends), any other parks until that broadcast
BandArrive(i) ==
    \E g \in bands :
    /\ g.id = i
    /\ g.pc = "wait" /\ ~crashed
    /\ barriers' = [barriers EXCEPT ![g.phase] = Arrive(@)]
    /\ IF Completes(barriers[g.phase])
         THEN bands' = (bands \ {g}) \ Parked(g.phase)
         ELSE bands' = (bands \ {g}) \cup
                  {[g EXCEPT !.pc = "parked", !.localGen = barriers[g.phase].generation]}
    /\ UNCHANGED <<heapVars, pc, crashed, poolVars, barrierVars, tasks, numThreads, ti, img,
                   pixels, ei, bi, mainGen, applied, spawned, swaps, saved, filesVars, pixelVars>>

RunBSPStep ==
    \/ RunBSP75 \/ RunBSP82 \/ Load \/ ProcessImageBSP155 \/ ApplyEffect
    \/ SpawnBand \/ MainArrive \/ MainLeave \/ AfterEffect \/ Save
\* band i of a phase (of any phase whose goroutine has not returned yet)
BandIds == 0 .. (MaxWorkers - 1)
BandStep(i) == BandRow(i) \/ BandArrive(i)

NextRunBSP == RunBSPStep \/ \E i \in BandIds : BandStep(i)

SpecRunBSP == InitRunBSP /\ [][NextRunBSP]_vars

\* every runnable goroutine keeps being scheduled
FairRunBSP ==
    /\ SpecRunBSP
    /\ WF_vars(RunBSPStep)
    /\ \A i \in BandIds : WF_vars(BandStep(i))

(* ------------- RunBSP over a batch of several images -------------------- *)
\* the effects.txt files of a batch: at most MaxBatch tasks, each with at most
\* one effect identifier
BatchLists == SeqsUpTo(SeqsUpTo(InputIds, 1), MaxBatch)
\* reader.Decode has filled tasks; nothing is loaded yet
InitBatch ==
    /\ head = [d \in Deques |-> Dummy(d)]
    /\ tail = [d \in Deques |-> Dummy(d)]
    /\ next = [n \in Nodes |-> Nil]
    /\ pc = [t \in Threads |-> IF t = Main THEN "rb75" ELSE "idle"]
    /\ frame = [t \in Threads |-> NoFrame]
    /\ result = [t \in Threads |-> NoResult]
    /\ log = <<>> /\ calls = 0 /\ crashed = FALSE
    /\ NoPool /\ NoBarrier /\ NoFiles /\ NoPixels
    /\ tasks \in BatchLists
    /\ numThreads \in ThreadCounts
    /\ ti = 0
    /\ img = NoImage
    /\ pixels = [b \in Buffers |-> <<>>]
    /\ ei = 0 /\ bi = 0
    /\ bands = {}
    /\ barriers = <<>>
    /\ mainGen = 0
    /\ applied = <<>> /\ spawned = <<>> /\ swaps = 0 /\ saved = <<>>
SpecBatch == InitBatch /\ [][NextRunBSP]_vars

(* ------------- a run of either scheduler of proj3 ------------------------ *)
InitSchedulers == InitPool \/ InitRunBSP
NextSchedulers == NextPool \/ NextRunBSP
SpecSchedulers == InitSchedulers /\ [][NextSchedulers]_vars

(* ------------------- pixel arithmetic of the effects -------------------- *)
(* The channel values of a small image pushed through applyEffectsSliced:   *)
(* one step per band of a phase (the barrier orders the phases), the bands  *)
(* of a phase in any order.  Channels are the uint32 values of RGBA() in    *)
(* 0 .. 65535; the float64 sums of the integer kernels are exact.  Blur is  *)
(* left out: its weight 1.0/9 is not an integer.                            *)
\* the largest uint16, the upper limit in clamp
MaxChannel == 65535
\* clamp(comp) for comp = n/d (d > 0): uint16(math.Min(65535, math.Max(0, comp))),
\* the conversion to uint16 drops the fraction (mutant: rounds to nearest)
clampNearest(n, d) ==
    IF n < 0 THEN 0 ELSE IF n > MaxChannel * d THEN MaxChannel ELSE (2 * n + d) \div (2 * d)
clamp(n, d) ==
    IF n < 0 THEN 0 ELSE IF n > MaxChannel * d THEN MaxChannel ELSE n \div d

\* r+g+b of a pixel <<r, g, b, a>> (mutant: blue is left out)
SumRG(p) == p[1] + p[2]
SumRGB(p) == p[1] + p[2] + p[3]
\* greyC := clamp(float64(r+g+b) / 3); color.RGBA64{greyC, greyC, greyC, uint16(a)}
GreyPixel(p) ==
    LET greyC == clamp(SumRGB(p), 3) IN <<greyC, greyC, greyC, p[4]>>

\* the kernels of BSPSharpen and BSPEdgeDetection
Kernel(e) ==
    IF e = "S" THEN <<0, -1, 0, -1, 5, -1, 0, -1, 0>>
               ELSE <<-1, -1, -1, -1, 8, -1, -1, -1, -1>>
\* the test of convolve that skips a neighbour
OutOfBounds(nx, ny, b) == nx < 0 \/ nx >= b.w \/ ny < 0 \/ ny >= b.h
\* the nearest coordinate inside 0 .. n-1
Nearest(v, n) == IF v < 0 THEN 0 ELSE IF v >= n THEN n - 1 ELSE v
\* what the neighbour (nx, ny) adds to the sum of channel c: nothing when it
\* is skipped (mutant: the image is extended by its border pixels)
TermEdge(buf, b, nx, ny, c, k) == buf[<<Nearest(nx, b.w), Nearest(ny, b.h)>>][c] * k
Term(buf, b, nx, ny, c, k) ==
    IF OutOfBounds(nx, ny, b) THEN 0 ELSE buf[<<nx, ny>>][c] * k
\* the loops over dy and dx of convolve from kernel index j on,
\* index := (dy+1)*3 + (dx+1)
RECURSIVE ConvolveSum(_, _, _, _, _, _, _)
ConvolveSum(buf, b, x, y, c, kernel, j) ==
    IF j > 8 THEN 0
    ELSE Term(buf, b, x + (j % 3) - 1, y + (j \div 3) - 1, c, kernel[j + 1])
         + ConvolveSum(buf, b, x, y, c, kernel, j + 1)
\* r, g, b := convolve(x, y, kernel); color.RGBA64{r, g, b, uint16(a)}
ConvolvePixel(buf, b, x, y, kernel) ==
    << clamp(ConvolveSum(buf, b, x, y, 1, kernel, 0), 1),
       clamp(ConvolveSum(buf, b, x, y, 2, kernel, 0), 1),
       clamp(ConvolveSum(buf, b, x, y, 3, kernel, 0), 1),
       buf[<<x, y>>][4] >>
\* the pixel an effect writes at (x, y)
EffectPixel(e, buf, b, x, y) ==
    IF e = "G" THEN GreyPixel(buf[<<x, y>>]) ELSE ConvolvePixel(buf, b, x, y, Kernel(e))

\* the effects with integer arithmetic
PixelEffects == {"S", "E", "G"}
\* pixels the input images are assembled from
SamplePixels ==
    << <<25, 75, 250, 65535>>, <<0, 0, 0, 0>>, <<65535, 65535, 65535, 65535>>,
       <<13107, 13108, 8192, 32768>>, <<1, 2, 2, 1000>>, <<40000, 100, 65534, 255>> >>
Coords(b) == (0 .. (b.w - 1)) \X (0 .. (b.h - 1))
\* the decoded file: the sample pixels in row-major order from sample s on
Picture(b, s) ==
    [p \in Coords(b) |-> SamplePixels[((s + p[1] + b.w * p[2]) % Len(SamplePixels)) + 1]]
\* image.NewRGBA64(bounds)
BlankPicture(b) == [p \in Coords(b) |-> <<0, 0, 0, 0>>]
\* the bands of a phase
AllSlices(n) == 0 .. (n - 1)

\* Load has run on a small image; the effect list and numThreads are given
InitPixels ==
    /\ InitHeap /\ NoPool /\ NoBarrier /\ NoBSP /\ NoFiles
    /\ bounds \in {[w |-> w, h |-> h] : w \in 1 .. MaxWidth, h \in 1 .. MaxHeight}
    /\ \E s \in 0 .. (Len(SamplePixels) - 1) :
          rgba = [In |-> Picture(bounds, s), Out |-> BlankPicture(bounds)]
    /\ kernels \in SeqsUpTo(PixelEffects, MaxEffects)
    /\ nslices \in 1 .. MaxWorkers
    /\ ki = 0
    /\ slices = IF kernels = <<>> THEN {} ELSE AllSlices(nslices)
    /\ phases = <<>> /\ written = <<>>

\* the goroutine of band i: every pixel of rows startY .. endY-1 is computed
\* from img.In and set in img.Out
PixelBand(i) ==
    /\ i \in slices
    /\ LET startY == BandStart(i, bounds.h, nslices)
           endY == BandEnd(i, bounds.h, nslices)
       IN  rgba' = [rgba EXCEPT !.Out =
                       [p \in Coords(bounds) |->
                           IF p[2] >= startY /\ p[2] < endY
                             THEN EffectPixel(kernels[ki + 1], rgba.In, bounds, p[1], p[2])
                             ELSE rgba.Out[p]]]
    /\ slices' = slices \ {i}
    /\ UNCHANGED <<heapVars, pc, crashed, poolVars, barrierVars, bspVars, filesVars,
                   bounds, kernels, ki, nslices, phases, written>>

\* the barrier has released the phase of effect i:
\* if i < len(effects)-1 { img.SwapBuffers() }, then the next effect
EndPhase ==
    /\ ki < Len(kernels) /\ slices = {}
    /\ phases' = Append(phases, [effect |-> kernels[ki + 1], In |-> rgba.In, Out |-> rgba.Out])
    /\ rgba' = IF SwapAfter(ki, Len(kernels))
                 THEN [In |-> rgba.Out, Out |-> rgba.In] ELSE rgba
    /\ ki' = ki + 1
    /\ slices' = IF ki + 1 < Len(kernels) THEN AllSlices(nslices) ELSE {}
    /\ UNCHANGED <<heapVars, pc, crashed, poolVars, barrierVars, bspVars, filesVars,
                   bounds, kernels, nslices, written>>

\* Save: img.Out if EffectsApplied (len(task.Effects) > 0), else img.In
SavePixels ==
    /\ ki = Len(kernels) /\ written = <<>>
    /\ written' = <<IF Len(kernels) > 0 THEN rgba.Out ELSE rgba.In>>
    /\ UNCHANGED <<heapVars, pc, crashed, poolVars, barrierVars, bspVars, filesVars,
                   bounds, rgba, kernels, ki, slices, nslices, phases>>

NextPixels ==
    \/ \E i \in BandIds : PixelBand(i)
    \/ EndPhase
    \/ SavePixels
SpecPixels == InitPixels /\ [][NextPixels]_vars

(* ------------- RunParallelFiles and its TASLock (proj1) ------------------ *)
(* The goroutine calling RunParallelFiles is Main; the goroutines it starts *)
(* are 0 .. numThreads-1.  A failed compare-and-swap of Lock changes        *)
(* nothing, so Lock is the one step in which the swap succeeds.             *)
Goroutines == 0 .. (MaxWorkers - 1)
\* Lock: atomic.CompareAndSwapInt32(&l.state, 0, 1) succeeds
\* (mutant: the swap succeeds whatever the state)
LockFreeAlways(s) == TRUE
LockFree(s) == s = 0
\* atomic.StoreInt32(&l.state, 0) in Unlock, called at lines 81 and 88
\* (mutant: the empty-queue exit returns without releasing the lock)
StateAfterUnlockOnExitKept(p) == IF p = "pf81" THEN 1 ELSE 0
StateAfterUnlock(p) == 0
\* if len(tasks) == 0, under the lock (mutant: a goroutine leaves one task early)
QueueEmptySoon(q) == Len(q) <= 1
QueueEmpty(q) == Len(q) = 0
\* numThreads := config.ThreadCount; if numThreads > len(tasks) { numThreads = len(tasks) }
\* (mutant: no cap by the number of tasks)
NumThreadsNoCap(c, n) == c
NumThreads(c, n) == IF c > n THEN n ELSE c
\* numThreads of the run
FileThreads == NumThreads(threadCount, numFiles)

\* reader.Decode has filled tasks with the tasks 1 .. numFiles
InitFiles ==
    /\ head = [d \in Deques |-> Dummy(d)]
    /\ tail = [d \in Deques |-> Dummy(d)]
    /\ next = [n \in Nodes |-> Nil]
    /\ pc = [t \in Threads |-> IF t = Main THEN "pf52" ELSE "idle"]
    /\ frame = [t \in Threads |-> NoFrame]
    /\ result = [t \in Threads |-> NoResult]
    /\ log = <<>> /\ calls = 0 /\ crashed = FALSE
    /\ NoPool /\ NoBarrier /\ NoBSP /\ NoPixels
    /\ state = 0
    /\ numFiles \in 0 .. MaxFiles
    /\ queue = [i \in 1 .. numFiles |-> i]
    /\ threadCount \in ThreadCounts
    /\ started = 0 /\ wgFiles = 0
    /\ taken = [t \in Threads |-> NilTask]
    /\ dequeued = <<>>
    /\ ran = [k \in Files |-> 0]

\* if len(tasks) == 0 { return }
Files52 ==
    /\ ~crashed
    /\ pc[Main] = "pf52"
    /\ Goto(Main, IF Len(queue) = 0 THEN "returned" ELSE "pf57")
    /\ UNCHANGED <<heapVars, crashed, poolVars, barrierVars, bspVars, filesVars, pixelVars>>

\* numThreads is computed; wg.Add(numThreads) panics on a negative counter
Files66 ==
    /\ ~crashed
    /\ pc[Main] = "pf57"
    /\ IF FileThreads < 0
         THEN /\ crashed' = TRUE
              /\ Goto(Main, "panic")
              /\ UNCHANGED wgFiles
         ELSE /\ wgFiles' = wgFiles + FileThreads
              /\ Goto(Main, "pf69")
              /\ UNCHANGED crashed
    /\ UNCHANGED <<heapVars, poolVars, barrierVars, bspVars, state, queue, threadCount,
                   numFiles, started, taken, dequeued, ran, pixelVars>>

\* for i := 0; i < numThreads; i++ { go func() {...}() }
Files69 ==
    /\ ~crashed
    /\ pc[Main] = "pf69"
    /\ IF started < FileThreads
         THEN /\ pc' = [pc EXCEPT ![started] = "pf77"]
              /\ started' = started + 1
         ELSE /\ Goto(Main, "pf99")
              /\ UNCHANGED started
    /\ UNCHANGED <<heapVars, crashed, poolVars, barrierVars, bspVars, state, queue,
                   threadCount, numFiles, wgFiles, taken, dequeued, ran, pixelVars>>

\* wg.Wait() returns when the counter is zero
Files99 ==
    /\ ~crashed
    /\ pc[Main] = "pf99"
    /\ wgFiles = 0
    /\ Goto(Main, "returned")
    /\ UNCHANGED <<heapVars, crashed, poolVars, barrierVars, bspVars, filesVars, pixelVars>>

\* tasLock.Lock() returns
Lock(t) ==
    /\ ~crashed
    /\ pc[t] = "pf77"
    /\ LockFree(state)
    /\ state' = 1
    /\ Goto(t, "pf80")
    /\ UNCHANGED <<heapVars, crashed, poolVars, barrierVars, bspVars, queue, threadCount,
                   numFiles, started, wgFiles, taken, dequeued, ran, pixelVars>>

\* if len(tasks) == 0
Files80(t) ==
    /\ ~crashed
    /\ pc[t] = "pf80"
    /\ Goto(t, IF QueueEmpty(queue) THEN "pf81" ELSE "pf86")
    /\ UNCHANGED <<heapVars, crashed, poolVars, barrierVars, bspVars, filesVars, pixelVars>>

\* tasLock.Unlock(): atomic.StoreInt32(&l.state, 0), on the empty-queue exit
\* (then return) and after the dequeue
Unlock(t) ==
    /\ ~crashed
    /\ pc[t] \in {"pf81", "pf88"}
    /\ state' = StateAfterUnlock(pc[t])
    /\ Goto(t, IF pc[t] = "pf81" THEN "pf72" ELSE "pf93")
    /\ UNCHANGED <<heapVars, crashed, poolVars, barrierVars, bspVars, queue, threadCount,
                   numFiles, started, wgFiles, taken, dequeued, ran, pixelVars>>

\* task := tasks[0] (index out of range panics)
Files86(t) ==
    /\ ~crashed
    /\ pc[t] = "pf86"
    /\ IF Len(queue) = 0
         THEN /\ crashed' = TRUE
              /\ Goto(t, "panic")
              /\ UNCHANGED taken
         ELSE /\ taken' = [taken EXCEPT ![t] = Head(queue)]
              /\ Goto(t, "pf87")
              /\ UNCHANGED crashed
    /\ UNCHANGED <<heapVars, poolVars, barrierVars, bspVars, state, queue, threadCount,
                   numFiles, started, wgFiles, dequeued, ran, pixelVars>>

\* tasks = tasks[1:] (slice bounds out of range panics)
Files87(t) ==
    /\ ~crashed
    /\ pc[t] = "pf87"
    /\ IF Len(queue) = 0
         THEN /\ crashed' = TRUE
              /\ Goto(t, "panic")
              /\ UNCHANGED <<queue, dequeued>>
         ELSE /\ queue' = Tail(queue)
              /\ dequeued' = Append(dequeued, [by |-> t, task |-> taken[t]])
              /\ Goto(t, "pf88")
              /\ UNCHANGED crashed
    /\ UNCHANGED <<heapVars, poolVars, barrierVars, bspVars, state, threadCount,
                   numFiles, started, wgFiles, taken, ran, pixelVars>>

\* processImageTask(task), then the next iteration
Files93(t) ==
    /\ ~crashed
    /\ pc[t] = "pf93"
    /\ ran' = [ran EXCEPT ![taken[t]] = @ + 1]
    /\ Goto(t, "pf77")
    /\ UNCHANGED <<heapVars, crashed, poolVars, barrierVars, bspVars, state, queue,
                   threadCount, numFiles, started, wgFiles, taken, dequeued, pixelVars>>

\* defer wg.Done()
Files72(t) ==
    /\ ~crashed
    /\ pc[t] = "pf72"
    /\ wgFiles' = wgFiles - 1
    /\ Goto(t, "exited")
    /\ UNCHANGED <<heapVars, crashed, poolVars, barrierVars, bspVars, state, queue,
                   threadCount, numFiles, started, taken, dequeued, ran, pixelVars>>

FilesMain == Files52 \/ Files66 \/ Files69 \/ Files99
FilesStep(t) ==
    \/ Lock(t) \/ Files80(t) \/ Unlock(t) \/ Files86(t) \/ Files87(t)
    \/ Files93(t) \/ Files72(t)
NextFiles ==
    \/ FilesMain
    \/ \E t \in Goroutines : FilesStep(t)
SpecFiles == InitFiles /\ [][NextFiles]_vars
\* every goroutine that can take a step eventually takes one
FairFiles ==
    /\ SpecFiles
    /\ WF_vars(FilesMain)
    /\ \A t \in Goroutines : WF_vars(FilesStep(t))

(* ------------------------- history operators --------------------------- *)
IsDelivery(e) == e.op \in {"Pop", "Steal"}
\* how many successful Pop/Steal calls returned task k
Delivered(k) == Cardinality({i \in 1 .. Len(log) : IsDelivery(log[i]) /\ log[i].task = k})
IsSteal(e) == e.op = "Steal"
StealLog == SelectSeq(log, IsSteal)
IsPop(e) == e.op = "Pop"
PopLog == SelectSeq(log, IsPop)
\* no deque operation is in flight
Quiescent == ~crashed /\ \A t \in Threads : pc[t] = "idle"

\* the stack the log describes after its first i events
RECURSIVE StackAfter(_)
StackAfter(i) ==
    IF i = 0 THEN <<>>
    ELSE LET s == StackAfter(i - 1)
         IN  IF log[i].op = "Push" THEN Append(s, log[i].task)
             ELSE IF Len(s) = 0 THEN s
             ELSE SubSeq(s, 1, Len(s) - 1)

(* ------------------------------ claims --------------------------------- *)

\* C1: under every interleaving of the owner's Push/Pop and the thieves' Steal,
\* no pushed task is returned by more than one successful Pop/Steal, and once
\* the deque is drained (empty, nothing in flight) every pushed task has been
\* returned exactly once.
C1_ExactlyOnce ==
    /\ \A k \in Tasks : Delivered(k) <= 1
    /\ (Quiescent /\ IsEmpty(0)) => \A k \in 1 .. Pushed : Delivered(k) = 1

\* C4: after pushes t1..tn with no Pop in between, the successive Pops return
\* tn, ..., t1 and the Pop after them reports empty.
PushesThenPops ==
    /\ \A i \in 1 .. Len(log) : i <= Pushed => log[i].op = "Push"
    /\ \A i \in 1 .. Len(log) : i > Pushed => log[i].op = "Pop"
C4_LIFO ==
    PushesThenPops =>
        /\ Len(PopLog) <= Pushed
        /\ \A j \in 1 .. Len(PopLog) : PopLog[j].task = Pushed - j + 1
        /\ (pc[Owner] = "popRet" /\ ~result[Owner].ok) => Len(PopLog) = Pushed
C4_Witness ==
    /\ Pushed = 3 /\ PushesThenPops
    /\ Len(PopLog) = 3
    /\ PopLog[1].task = 3 /\ PopLog[3].task = 1
    /\ pc[Owner] = "popRet" /\ ~result[Owner].ok

\* C5: after the owner's pushes t1..tn and before any Pop, the k-th successful
\* Steal returns tk, and Steal reports empty only after n successes.
C5_FIFO ==
    /\ Len(StealLog) <= Pushed
    /\ \A j \in 1 .. Len(StealLog) : StealLog[j].task = j
    /\ \A t \in Thieves :
          (pc[t] = "stealRet" /\ ~result[t].ok) => Len(StealLog) = Pushed
C5_Witness ==
    /\ Pushed = 3
    /\ Len(StealLog) = 3 /\ StealLog[1].task = 1 /\ StealLog[3].task = 3
    /\ \E t \in Thieves : pc[t] = "stealRet" /\ ~result[t].ok

\* C6: with no thieves, for every sequence of Push and Pop the deque is a
\* stack: a Pop returns the most recently pushed task not yet popped, reports
\* empty exactly when every pushed task has been popped, and never returns a
\* task twice.
C6_Stack ==
    /\ \A i \in 1 .. Len(log) :
          log[i].op = "Pop" =>
              /\ Len(StackAfter(i - 1)) > 0
              /\ log[i].task = StackAfter(i - 1)[Len(StackAfter(i - 1))]
    /\ (pc[Owner] = "popRet" /\ ~result[Owner].ok) => StackAfter(Len(log)) = <<>>
    /\ \A k \in Tasks : Delivered(k) <= 1

\* C7: with no deque operation in flight, IsEmpty() is true iff no task can be
\* delivered by a Pop or a Steal without a further Push.
CanDeliver(d) == SeqPop(d).kind = "task" \/ SeqSteal(d).kind = "task"
C7_IsEmptyIffNothingLeft ==
    Quiescent => (IsEmpty(0) <=> ~CanDeliver(0))

\* C2: in RunBSPSteal every seeded task is handed to processImageBSP exactly
\* once: never twice (by one worker or by two), and none is left unprocessed
\* when the run completes.
C2_ProcessedOnce ==
    /\ \A k \in Tasks : Processed(k) <= 1
    /\ pc[Main] = "returned" => \A k \in 1 .. numTasks : Processed(k) = 1

\* C3: under fair scheduling RunBSPSteal terminates: every worker's loop exits
\* and wg.Wait returns; no worker spins forever or crashes.
C3_Terminates == <>(pc[Main] = "returned")

\* C8: no call of Wait is released (returns) in a phase before all threshold
\* participants have called Wait in that phase, and the arrival that completes
\* a phase releases the callers of that phase only (never a later phase's).
C8_NoEarlyRelease ==
    /\ \A t \in Participants : \A q \in Participants : Released(t) <= Arrived(q)
    /\ \A t \in Participants : Released(t) <= generation
    /\ \A t \in Participants : pc[t] = "parked" => Arrived(t) = generation + 1
\* the last of three arrivals is about to return and has woken the other two
C8_Witness ==
    /\ threshold = 3 /\ generation = 1
    /\ \E t \in Participants :
          /\ pc[t] = "b41"
          /\ \A q \in Participants \ {t} : pc[q] = "woken"

\* C9: with threshold participants each calling Wait once per phase for
\* MaxPhases phases, every participant's Wait returns MaxPhases times.
AllReturned == \A t \in Participants : returned[t] = MaxPhases
C9_EveryWaitReturns == <>AllReturned
C9_Witness == threshold = 3 /\ AllReturned /\ generation = MaxPhases

\* C10: on a reused Barrier a participant that re-enters Wait for the next
\* phase is not released by the previous phase's broadcast, and the slower
\* waiters of the previous phase are released even though count has been reset
\* and incremented again.
C10_PhasesDoNotMix ==
    /\ \A t \in Participants : pc[t] = "b41" => localGen[t] + 1 = generation
    /\ \A t \in Participants : pc[t] = "woken" => localGen[t] < generation
    /\ \A t \in Participants : pc[t] = "parked" => localGen[t] = generation
\* q, woken by phase 1's broadcast, is released although t has already come
\* back for phase 2, has incremented the reset count and is parked
C10_Witness ==
    \E t \in Participants : \E q \in Participants :
        /\ pc[t] = "parked" /\ entered[t] = 2 /\ localGen[t] = 1
        /\ generation = 1 /\ count = 1
        /\ pc[q] = "b41" /\ entered[q] = 1 /\ localGen[q] = 0

\* C18: with an empty task list and W >= 1 the run is a no-op and not an error:
\* RunBSP returns without loading, processing or saving anything; in
\* RunBSPSteal there is no Push and no successful Pop or Steal, nothing is
\* processed, nothing panics, every worker that exits has found all deques
\* empty, and the call returns.
EmptyPoolRun == numWorkers >= 1 /\ numTasks = 0
EmptyBSPRun == numWorkers = 0 /\ numThreads >= 1 /\ tasks = <<>>
NothingProcessed ==
    /\ log = <<>>
    /\ ~crashed
    /\ \A k \in Tasks : Processed(k) = 0
    /\ \A w \in Workers : task[w] = NilTask /\ ~result[w].ok
    /\ \A w \in Workers : pc[w] = "exited" => \A d \in Workers : IsEmpty(d)
    /\ img = NoImage /\ applied = <<>> /\ barriers = <<>> /\ bands = {} /\ saved = <<>>
\* an upper bound on the steps worker w has left in an empty run: Pop on its
\* own deque (5 steps to the scan), one Steal of 6 steps per victim, the exit
ScanRank(v) == (numWorkers - v) * 6 + 1
WorkerRank(w) ==
    CASE pc[w] = "idle" -> ScanRank(0) + 5
      [] pc[w] = "w132" -> ScanRank(0) + 4
      [] pc[w] = "pop56" -> ScanRank(0) + 3
      [] pc[w] = "pop57" -> ScanRank(0) + 2
      [] pc[w] = "popRet" -> ScanRank(0) + 1
      [] pc[w] = "sw38" -> ScanRank(victim[w])
      [] pc[w] = "steal83" -> ScanRank(victim[w]) - 1
      [] pc[w] = "steal84" -> ScanRank(victim[w]) - 2
      [] pc[w] = "steal85" -> ScanRank(victim[w]) - 3
      [] pc[w] = "steal89" -> ScanRank(victim[w]) - 4
      [] pc[w] = "stealRet" -> ScanRank(victim[w]) - 5
      [] OTHER -> 0
MainRank ==
    IF pc[Main] = "idle" THEN 2 ELSE IF pc[Main] \in {"m142", "rb75"} THEN 1 ELSE 0
RECURSIVE RankUpTo(_)
RankUpTo(n) == IF n = 0 THEN 0 ELSE WorkerRank(n - 1) + RankUpTo(n - 1)
EmptyRunRank == MainRank + RankUpTo(numWorkers)
\* the call returns: until it has, a step is enabled, and every step of an
\* empty run decreases EmptyRunRank
EmptyRun == EmptyPoolRun \/ EmptyBSPRun
C18_EmptyRunIsNoOp ==
    /\ [](EmptyRun => NothingProcessed)
    /\ []((EmptyRun /\ pc[Main] # "returned") => ENABLED NextSchedulers)
    /\ [][EmptyRun => EmptyRunRank' < EmptyRunRank]_vars
\* the empty run of RunBSPSteal with two workers has returned
C18_Witness ==
    /\ numWorkers = 2 /\ numTasks = 0
    /\ pc[Main] = "returned"
    /\ \A w \in Workers : pc[w] = "exited"

\* C11: within one image no band goroutine of effect k+1 starts, and no buffer
\* swap happens, before every band goroutine of effect k has finished writing
\* its rows: the launching thread leaves an effect's barrier only after all
\* worker_count band goroutines have arrived at it.
Writing(g) == g.pc = "rows" /\ g.y < g.end
InPhase == pc[Main] \in {"bsp173", "bsp195", "bspWait"}
ApplyWhole(e, rows) == [y \in 1 .. Len(rows) |-> EffectRow(e, rows, y - 1)]
RECURSIVE RunEffects(_, _)
RunEffects(effs, rows) ==
    IF effs = <<>> THEN rows ELSE RunEffects(Tail(effs), ApplyWhole(Head(effs), rows))
AppliedTo(t) == SelectSeq(applied, LAMBDA a : a.task = t)
InLoop == pc[Main] \in {"ae169", "bsp173", "bsp195", "bspWait", "ae183"}
Min(a, b) == IF a <= b THEN a ELSE b
C12_EffectsInOrder ==
    /\ img.In # img.Out
    /\ (InLoop \/ pc[Main] = "pi162") =>
          /\ \A j \in 1 .. Len(AppliedTo(ti)) :
                /\ AppliedTo(ti)[j].index = j - 1
                /\ AppliedTo(ti)[j].effect = Effects[j]
          /\ \A j \in 1 .. (Len(AppliedTo(ti)) - 1) :
                AppliedTo(ti)[j + 1].In = AppliedTo(ti)[j].Out
    /\ InLoop => swaps = Min(ei, Len(Effects) - 1)
    /\ (pc[Main] = "pi162" /\ Effects # <<>>) =>
          /\ Len(AppliedTo(ti)) = Len(Effects)
          /\ swaps = Len(Effects) - 1
          /\ AppliedTo(ti)[Len(Effects)].Out = img.Out
          /\ pixels[img.Out] = RunEffects(Effects, Original(img.height))
    /\ \A i \in 1 .. Len(saved) :
          tasks[saved[i].task] # <<>> =>
              saved[i].image = RunEffects(tasks[saved[i].task], Original(Len(saved[i].image)))
\* a two-row image with effects S then G, processed by two bands, is saved
C12_Witness ==
    /\ numThreads = 2 /\ tasks = <<(<<"S", "G">>)>>
    /\ Len(saved) = 1 /\ Len(saved[1].image) = 2 /\ swaps = 1
    /\ saved[1].image = RunEffects(<<"S", "G">>, Original(2))

\* C13: for a task whose effect list is empty no effect kernel runs, no band
\* goroutine or barrier is created and no buffer is swapped; both buffers stay
\* as loaded and the saved output is the unmodified input buffer.
C13_EmptyEffectList ==
    /\ \A i \in 1 .. Len(applied) : tasks[applied[i].task] # <<>>
    /\ \A g \in bands : tasks[applied[g.phase].task] # <<>>
    /\ (pc[Main] \in {"pi155", "pi162"} /\ Effects = <<>>) =>
          /\ swaps = 0 /\ ~img.EffectsApplied
          /\ img.In = 1 /\ img.Out = 2
          /\ pixels[1] = Original(img.height) /\ pixels[2] = Blank(img.height)
    /\ \A i \in 1 .. Len(saved) :
          tasks[saved[i].task] = <<>> => saved[i].image = Original(Len(saved[i].image))
C13_Witness ==
    /\ numThreads = 2 /\ tasks = <<(<<>>)>>
    /\ Len(saved) = 1 /\ saved[1].image = Original(2)
    /\ barriers = <<>> /\ swaps = 0

\* C14: if a task's effect list holds an identifier outside {S, E, B, G},
\* applyEffectsSliced aborts when it reaches it: no later effect of the task
\* is run, the identifier is neither skipped nor retried, and the task's
\* output is never saved.
HasUnknown(effs) == \E j \in 1 .. Len(effs) : effs[j] \notin EffectIds
FirstUnknown(effs) ==
    CHOOSE j \in 1 .. Len(effs) :
        effs[j] \notin EffectIds /\ \A i \in 1 .. (j - 1) : effs[i] \in EffectIds
C14_UnknownEffectAborts ==
    \A t \in 1 .. Len(tasks) :
        HasUnknown(tasks[t]) =>
            /\ \A i \in 1 .. Len(applied) :
                  applied[i].task = t => applied[i].index + 1 < FirstUnknown(tasks[t])
            /\ \A i \in 1 .. Len(saved) : saved[i].task # t
            /\ ti <= t
            /\ (ti = t /\ InLoop) => ei + 1 <= FirstUnknown(tasks[t])
            /\ (ti = t /\ pc[Main] = "panic" /\ numThreads >= 1) =>
                  ei + 1 = FirstUnknown(tasks[t])
\* the effect S has run, the unknown identifier after it has stopped the run
C14_Witness ==
    /\ numThreads = 2 /\ tasks = <<(<<"S", UnknownId>>)>>
    /\ crashed /\ pc[Main] = "panic" /\ ei = 1
    /\ Len(applied) = 1 /\ saved = <<>>

\* C15: for every height >= 0 and worker_count >= 1 (also worker_count >
\* height) the row bands [start_i, end_i) are contiguous, pairwise disjoint
\* and cover every row of [0, height) exactly once.
BandsOver(y) == {j \in 1 .. Len(spawned) : spawned[j].start <= y /\ y < spawned[j].end}
C15_BandsPartitionRows ==
    (numThreads >= 1 /\ InPhase) =>
        /\ Len(spawned) <= numThreads
        /\ \A j \in 1 .. Len(spawned) :
              /\ spawned[j].start = (j - 1) * (img.height \div numThreads)
              /\ spawned[j].start <= spawned[j].end
              /\ spawned[j].end <= img.height
        /\ Len(spawned) >= 1 => spawned[1].start = 0
        /\ \A j \in 1 .. (Len(spawned) - 1) : spawned[j + 1].start = spawned[j].end
        /\ \A y \in 0 .. (img.height - 1) : Cardinality(BandsOver(y)) <= 1
        /\ Len(spawned) = numThreads =>
              /\ spawned[numThreads].end = img.height
              /\ \A y \in 0 .. (img.height - 1) : Cardinality(BandsOver(y)) = 1
\* two bands over a one-row image: the first is empty, the last has the row
C15_Witness ==
    /\ numThreads = 2 /\ img.height = 1 /\ InPhase
    /\ spawned = <<[start |-> 0, end |-> 0], [start |-> 0, end |-> 1]>>

\* C17: with a worker count <= 0 the run processes and saves no image.
C17_NoImageWithoutWorkers ==
    numThreads <= 0 => (applied = <<>> /\ saved = <<>>)

\* C16: RunBSPSteal seeds round-robin: the i-th task decoded (0-based) is
\* pushed to the deque of worker i mod W, so deque sizes differ by at most one;
\* every Push happens before any worker goroutine starts, none after.
RECURSIVE ChainFrom(_)
ChainFrom(n) == IF next[n] = Nil THEN <<>> ELSE <<TaskOf(next[n])>> \o ChainFrom(next[n])
\* the tasks in deque d before any Pop or Steal, oldest first
DequeTasks(d) == ChainFrom(Dummy(d))
RoundRobin(d, s) == SelectSeq([k \in 1 .. s |-> k], LAMBDA k : (k - 1) % numWorkers = d)
Seeding == pc[Main] = "idle"
AllExited == numWorkers >= 1 /\ \A w \in Workers : pc[w] = "exited"
C19_ExitedMeansEmpty == AllExited => \A d \in Workers : IsEmpty(d)
C19_Witness ==
    /\ AllExited /\ numWorkers = 2 /\ numTasks = 2
    /\ \E i \in 1 .. Len(log) : log[i].op = "Steal"
    /\ \A d \in Workers : IsEmpty(d)

\* C20: RunBSPSteal returns to its caller only after all W worker goroutines
\* have exited their loops, hence after every task a worker obtained has been
\* processed.
C20_ReturnsAfterWorkers ==
    (numWorkers >= 1 /\ pc[Main] = "returned") =>
        /\ \A w \in Workers : pc[w] = "exited" /\ task[w] = NilTask
        /\ \A k \in Tasks : Processed(k) = Delivered(k)
C20_Witness ==
    /\ numWorkers = 2 /\ numTasks = 2 /\ pc[Main] = "returned"
    /\ Processed(1) = 1 /\ Processed(2) = 1

(* ------------------------------ C21 .. C23 ------------------------------ *)
\* the phases of the history that applied effect e
PhasesOf(e) == {i \in 1 .. Len(phases) : phases[i].effect = e}
\* a pixel with colour channels (r, g, b)
HasColour(p, r, g, b) == p[1] = r /\ p[2] = g /\ p[3] = b

\* C21: a grayscale phase, run by one band or by several, sets the three
\* colour channels of every output pixel to the integer average of the input
\* pixel's colour channels rounded toward zero and copies alpha; the pixel
\* (25, 75, 250, a) becomes (116, 116, 116, a).
C21_GrayscaleAverages ==
    \A i \in PhasesOf("G") : \A p \in Coords(bounds) :
        LET src == phases[i].In[p]
            dst == phases[i].Out[p]
            sum == src[1] + src[2] + src[3]
        IN  /\ dst[1] = dst[2] /\ dst[2] = dst[3]
            /\ 3 * dst[1] <= sum /\ sum < 3 * dst[1] + 3
            /\ dst[4] = src[4]
            /\ HasColour(src, 25, 75, 250) => dst = <<116, 116, 116, src[4]>>
\* two bands have turned (25, 75, 250, a) grey
C21_Witness ==
    /\ nslices = 2 /\ bounds.h = 2
    /\ \E i \in PhasesOf("G") : \E p \in Coords(bounds) :
          /\ HasColour(phases[i].In[p], 25, 75, 250)
          /\ phases[i].Out[p][1] = 116

\* C22: grayscale is idempotent: a grayscale phase that follows a grayscale
\* phase writes the pixels it read, so the list [G, G] saves, pixel for pixel,
\* the output of its first phase, which is what the list [G] saves.
C22_GrayscaleIdempotent ==
    /\ \A i \in PhasesOf("G") :
          (i > 1 /\ phases[i - 1].effect = "G") =>
              /\ phases[i].In = phases[i - 1].Out
              /\ phases[i].Out = phases[i - 1].Out
    /\ (written # <<>> /\ kernels \in {<<"G">>, <<"G", "G">>}) => written[1] = phases[1].Out
\* [G, G] has been saved for an image that was not grey
C22_Witness ==
    /\ kernels = <<"G", "G">> /\ written # <<>>
    /\ nslices = 2 /\ bounds.h = 2
    /\ phases[1].In # phases[1].Out
    /\ written[1] = phases[2].Out

\* the input buffer extended by zero pixels on every side
Padded(buf, x, y) == IF <<x, y>> \in DOMAIN buf THEN buf[<<x, y>>] ELSE <<0, 0, 0, 0>>
\* the weighted sum of channel c over the whole 3x3 neighbourhood of (x, y)
PaddedSum(buf, x, y, c, k) ==
      Padded(buf, x - 1, y - 1)[c] * k[1] + Padded(buf, x, y - 1)[c] * k[2]
    + Padded(buf, x + 1, y - 1)[c] * k[3] + Padded(buf, x - 1, y)[c] * k[4]
    + Padded(buf, x, y)[c] * k[5]         + Padded(buf, x + 1, y)[c] * k[6]
    + Padded(buf, x - 1, y + 1)[c] * k[7] + Padded(buf, x, y + 1)[c] * k[8]
    + Padded(buf, x + 1, y + 1)[c] * k[9]
\* v is the sum s clamped to [0, 65535]
IsClamped(v, s) ==
    /\ s < 0 => v = 0
    /\ s > 65535 => v = 65535
    /\ (0 <= s /\ s <= 65535) => v = s

\* C23: a neighbour outside the bounds contributes zero to a convolution:
\* every colour channel of every output pixel is the clamped weighted sum over
\* the zero-padded input, and on a 1x1 image it is the clamped product of the
\* centre weight (sharpen 5, edge detection 8) and the pixel's channel.
C23_ZeroPadding ==
    \A e \in {"S", "E"} : \A i \in PhasesOf(e) : \A c \in 1 .. 3 :
        /\ \A p \in Coords(bounds) :
              IsClamped(phases[i].Out[p][c], PaddedSum(phases[i].In, p[1], p[2], c, Kernel(e)))
        /\ (bounds.w = 1 /\ bounds.h = 1) =>
              IsClamped(phases[i].Out[<<0, 0>>][c],
                        (IF e = "S" THEN 5 ELSE 8) * phases[i].In[<<0, 0>>][c])
\* a 1x1 image has been sharpened: 5 * 13107 fits, 5 * 13108 is clamped
C23_Witness ==
    /\ bounds.w = 1 /\ bounds.h = 1
    /\ \E i \in PhasesOf("S") :
          /\ HasColour(phases[i].In[<<0, 0>>], 13107, 13108, 8192)
          /\ HasColour(phases[i].Out[<<0, 0>>], 65535, 65535, 40960)

(* ------------------------------ C24 .. C26 ------------------------------ *)
\* goroutine t is between a returned Lock() and its own Unlock()
Holding(t) == pc[t] \in {"pf80", "pf81", "pf86", "pf87", "pf88"}
Holders == {t \in Goroutines : Holding(t)}

\* C24: TASLock gives mutual exclusion: at most one goroutine is between a
\* returned Lock() and its own Unlock(), the lock word is 1 exactly while
\* there is one, and the step that shortens the task queue is taken by the
\* one goroutine holding the lock.
C24_MutualExclusion ==
    /\ [](Cardinality(Holders) <= 1 /\ (state = 1 <=> Holders # {}))
    /\ [][queue' # queue =>
            /\ state = 1
            /\ \E t \in Goroutines : Holders = {t} /\ pc[t] = "pf87" /\ pc'[t] = "pf88"]_vars
\* one goroutine is shortening the queue while another spins in Lock, after
\* the lock has changed hands
C24_Witness ==
    \E t, u \in Goroutines :
        /\ t # u /\ pc[t] = "pf87" /\ pc[u] = "pf77"
        /\ state = 1
        /\ \E i \in 1 .. Len(dequeued) : dequeued[i].by = u

\* how many times task k was taken off the queue
TimesDequeued(k) == Cardinality({i \in 1 .. Len(dequeued) : dequeued[i].task = k})

C26_SpawnsMinThreads ==
    /\ threadCount >= 0 =>
          /\ started <= Min(threadCount, numFiles)
          /\ Cardinality({t \in Goroutines : pc[t] # "idle"}) = started
          /\ pc[Main] \in {"pf99", "returned"} => started = Min(threadCount, numFiles)
    /\ numFiles = 0 =>
          /\ pc[Main] \in {"pf52", "returned"}
          /\ started = 0 /\ wgFiles = 0 /\ ~crashed
          /\ \A t \in Goroutines : pc[t] = "idle"
\* one task and ThreadCount 2: the call has returned having started one goroutine
C26_Witness ==
    /\ pc[Main] = "returned" /\ numFiles = 1 /\ threadCount = 2
    /\ started = 1 /\ ran[1] = 1

(* --------------------------------- C27 ---------------------------------- *)
\* the effect phases of task j in the history
PhasesOfTask(j) == {i \in 1 .. Len(applied) : applied[i].task = j}
\* every effect of task j has run to the end of its barrier phase and the
\* image has been saved, as the j-th image
TaskFinished(j) ==
    /\ Cardinality(PhasesOfTask(j)) = Len(tasks[j])
    /\ \A i \in PhasesOfTask(j) : barriers[i].generation = 1
    /\ Len(saved) >= j /\ saved[j].task = j

\* C27: RunBSP processes the images one at a time in task-list order: the
\* images are saved in the order of the list, Load of a task begins only when
\* every earlier task has had all its effects completed and its output saved
\* and no band goroutine is left, and a run that returns has saved every task.
C27_OneImageAtATime ==
    /\ [](\A j \in 1 .. Len(saved) : saved[j].task = j)
    /\ [](pc[Main] = "returned" => Len(saved) = Len(tasks))
    /\ [][(pc[Main] = "pi150" /\ pc'[Main] = "pi155") =>
            /\ bands = {}
            /\ Len(saved) = ti - 1
            /\ \A j \in 1 .. (ti - 1) : TaskFinished(j)
            /\ \A i \in 1 .. Len(applied) : applied[i].task < ti]_vars
\* the second image is loaded after the first ran an effect in two bands and was saved
C27_Witness ==
    /\ pc[Main] = "pi155" /\ ti = 2 /\ numThreads = 2
    /\ Len(tasks[1]) = 1 /\ TaskFinished(1)
    /\ img.height = 2 /\ Len(saved[1].image) = 2

(* ------------------------------ C28 .. C30 ------------------------------ *)
\* node n is target or leads to it along next links
RECURSIVE Reaches(_, _)
Reaches(n, target) ==
    IF n = Nil THEN FALSE
    ELSE IF n = target THEN TRUE
    ELSE Reaches(next[n], target)

\* C28: in every reachable state of a deque, under any interleaving of Push,
\* Pop and Steal, the node tail references is reachable from the node head
\* references along next links.
C28_HeadReachesTail == \A d \in Deques : Reaches(head[d], tail[d])

\* C29: deque operations never block: in every reachable state in which the
\* owner is between calls, a Pop run while no other thread takes a step
\* returns (a task or empty) after finitely many steps; its retry loop does
\* not go round for ever on an unchanging deque.
C29_NeverBlocks ==
    (~crashed /\ pc[Owner] = "idle") => SeqPop(0).kind # "spin"

\* C30: no deque operation dereferences a nil node: no goroutine has
\* panicked, head and tail are never nil, and every successful Steal has
\* returned the task of a node.
C30_NoNilDereference ==
    /\ ~crashed
    /\ \A d \in Deques : head[d] # Nil /\ tail[d] # Nil
    /\ \A i \in 1 .. Len(log) : log[i].op = "Steal" => log[i].task # NilTask

(* --------------------------------- C31 ---------------------------------- *)
\* the operation thread t is inside
InPush(t) == pc[t] \in {"push33", "push34", "push37", "push41", "push43", "push47"}
InPop(t) == pc[t] \in {"pop56", "pop57", "fp107", "fp109", "pop74"}
InSteal(t) == pc[t] \in {"steal83", "steal84", "steal85", "steal89", "steal99"}
\* the step is taken by thread t
Acting(t) == pc'[t] # pc[t] \/ frame'[t] # frame[t]
\* the pointers of the deques other than d are left alone
OnlyDeque(d) == \A e \in Deques \ {d} : head'[e] = head[e] /\ tail'[e] = tail[e]

\* C31: owner and thieves work on opposite ends: a step of Push or Pop never
\* changes head (Push changes a next link and tail, Pop changes tail only),
\* and a step of Steal changes head only, never tail or a next link; each
\* touches the pointers of its own deque only.
C31_OppositeEnds ==
    [][\A t \in Threads : Acting(t) =>
          /\ InPush(t) => head' = head /\ OnlyDeque(frame[t].d)
          /\ InPop(t) => head' = head /\ next' = next /\ OnlyDeque(frame[t].d)
          /\ InSteal(t) => tail' = tail /\ next' = next /\ OnlyDeque(frame[t].d)]_vars
\* a Pop has retracted tail and a Steal has advanced head on the same deque
C31_Witness ==
    /\ \E i \in 1 .. Len(log) : log[i].op = "Pop"
    /\ \E i \in 1 .. Len(log) : log[i].op = "Steal"
    /\ head[0] # Dummy(0)

(* ------------------------------ C32, C33 -------------------------------- *)
\* C32: a pool worker starts every iteration with Pop on its own deque; it
\* enters the scan of stealWork only after that Pop reported empty, the scan
\* visits the workers in ascending index order from 0, skips the worker
\* itself, calls Steal on each other worker's deque, and the first successful
\* Steal ends the scan: its task is processed and no later victim is tried.
C32_PopThenStealInOrder ==
    /\ [](\A w \in Deques : (InSteal(w) \/ pc[w] = "stealRet") =>
              /\ frame[w].d = victim[w] /\ victim[w] # w /\ victim[w] \in Workers)
    /\ [](\A w \in Deques : (InPop(w) \/ pc[w] = "popRet") => frame[w].d = w)
    /\ [][\A w \in Deques : Acting(w) =>
            /\ pc[w] \in {"w132"} => pc'[w] = "pop56" /\ frame'[w].d = w
            /\ (pc'[w] = "sw38" /\ pc[w] # "sw38") =>
                    \/ pc[w] = "popRet" /\ ~result[w].ok /\ victim'[w] = 0
                    \/ pc[w] = "stealRet" /\ ~result[w].ok /\ victim'[w] = victim[w] + 1
            /\ (pc[w] = "sw38" /\ pc'[w] = "steal83") =>
                    victim[w] # w /\ frame'[w].d = victim[w] /\ victim'[w] = victim[w]
            /\ (pc[w] = "popRet" /\ result[w].ok) =>
                    pc'[w] = "w138" /\ task'[w] = result[w].task
            /\ (pc[w] = "stealRet" /\ result[w].ok) =>
                    pc'[w] = "w138" /\ task'[w] = result[w].task]_vars
    /\ [][\A w \in Deques : victim'[w] # victim[w] =>
            \/ victim'[w] = 0 /\ pc[w] = "popRet"
            \/ victim'[w] = victim[w] + 1 /\ (victim[w] = w \/ pc[w] = "stealRet")]_vars
\* worker 1 found its own deque empty, stole from worker 0 and is about to
\* process the stolen task
C32_Witness ==
    /\ numWorkers = 2 /\ pc[1] = "w138" /\ victim[1] = 0
    /\ Len(log) > 0 /\ log[Len(log)] = Event("Steal", task[1])

\* C33: a pool worker exits only from the end of the scan of an iteration
\* whose Pop reported empty and in which Steal reported empty on every other
\* worker's deque: it exits holding no task, with the scan past the last
\* worker, and since no deque grows after the workers start, no deque, its
\* own included, holds a task that no Pop or Steal has returned.
Holds(d) ==
    {k \in 1 .. numTasks : (k - 1) % numWorkers = d /\ Delivered(k) = 0}
C33_ExitsOnlyWhenIdle ==
    /\ [](\A w \in Deques : pc[w] = "exited" =>
              /\ task[w] = NilTask
              /\ victim[w] = numWorkers
              /\ \A d \in Workers : Holds(d) = {})
    /\ [](\A w \in Deques : pc[w] = "sw38" => task[w] = NilTask /\ Holds(w) = {})
    /\ [][\A w \in Deques : (pc'[w] = "exited" /\ pc[w] # "exited") =>
            /\ pc[w] = "sw38" /\ victim[w] = numWorkers
            /\ \A d \in Workers : Holds(d) = {}]_vars
\* worker 0 has exited while worker 1 is still processing a task
C33_Witness ==
    /\ numWorkers = 2 /\ numTasks = 2
    /\ pc[0] = "exited" /\ pc[1] = "w138"
    /\ processed[1] = 1

(* -------------------------------- C34 ----------------------------------- *)
\* C34: whenever the Barrier's mutex is free, 0 <= count < threshold; a step
\* changes count only as an arrival (b.count++ and the test that follows it);
\* the arrival that makes count equal threshold resets count to 0 and raises
\* generation by exactly 1, any other arrival raises count by 1 and leaves
\* generation alone, and no other step changes generation.
IsArrival(t) == pc[t] = "b29" /\ pc'[t] # "b29"
C34_BarrierCounters ==
    /\ [](mutex = Free => 0 <= count /\ count < threshold)
    /\ [][\A t \in Participants : IsArrival(t) =>
            IF count + 1 = threshold
              THEN count' = 0 /\ generation' = generation + 1
              ELSE count' = count + 1 /\ generation' = generation]_vars
    /\ [][(count' # count \/ generation' # generation) =>
            \E t \in Participants : IsArrival(t)]_vars
    /\ [][generation' # generation =>
            generation' = generation + 1 /\ count + 1 = threshold /\ count' = 0]_vars
\* the first phase of a Barrier of three is complete (count was reset) and
\* two participants have arrived for the second
C34_Witness ==
    /\ threshold = 3 /\ generation = 1 /\ count = 2 /\ mutex = Free
    /\ Cardinality({t \in Participants : pc[t] = "parked" /\ entered[t] = 2}) = 2

(* -------------------------------- C35 ----------------------------------- *)
\* the band goroutines of phase i that have not returned from Wait
BandsOf(i) == {g \in bands : g.phase = i}
\* the calls of Wait made on the barrier of phase i
Arrivals(i) == barriers[i].generation * barriers[i].threshold + barriers[i].count
\* the launching thread is inside phase i: launching its bands or in Wait
MainIn(i) == i = Phase /\ pc[Main] \in {"bsp173", "bsp195", "bspWait"}
\* phase i is over: its barrier has released and every Wait on it has returned
PhaseOver(i) ==
    /\ i <= Len(barriers)
    /\ barriers[i].generation = 1 /\ barriers[i].count = 0
    /\ BandsOf(i) = {} /\ ~MainIn(i)
\* where the launching thread is in RunBSP's loops, in program order within
\* one pass (the effect loop returns to ae169, the task loop to rb82)
MainStage ==
    CASE pc[Main] = "rb75" -> 0
      [] pc[Main] = "rb82" -> 1
      [] pc[Main] = "pi150" -> 2
      [] pc[Main] = "pi155" -> 3
      [] pc[Main] = "bsp173" -> 5
      [] pc[Main] = "bsp195" -> 6
      [] pc[Main] = "bspWait" -> 7
      [] pc[Main] = "ae183" -> 8
      [] pc[Main] = "ae169" -> 9
      [] pc[Main] = "pi162" -> 10
      [] OTHER -> 11
\* the steps band goroutine g has left: its rows, the call of Wait, the return
BandLeft(g) ==
    (IF g.y < g.end THEN g.end - g.y ELSE 0)
    + (IF g.pc = "rows" THEN 2 ELSE IF g.pc = "wait" THEN 1 ELSE 0)
RECURSIVE BandsLeft(_)
BandsLeft(S) ==
    IF S = {} THEN 0
    ELSE LET g == CHOOSE x \in S : TRUE IN BandLeft(g) + BandsLeft(S \ {g})
BandWeight == MaxHeight + 3
\* how far the run has got: tasks begun, phases begun, the launching thread's
\* place in its loops, bands launched, less what the live bands have left
RunProgress ==
    ((ti + Len(barriers)) * 12 + MainStage) * (MaxWorkers + 1) * BandWeight
    + bi * BandWeight - BandsLeft(bands)
RunProgressMax ==
    ((MaxImages + 1 + MaxEffects) * 12 + 12) * (MaxWorkers + 1) * BandWeight
    + MaxWorkers * BandWeight
\* C35: with worker_count >= 1 every effect phase ends: its barrier is a
\* fresh one of threshold worker_count + 1, exactly worker_count band
\* goroutines are launched, each band goroutine and the launching thread call
\* Wait once (worker_count + 1 calls in all, never more), and all the calls
\* return: the run never stops inside a phase (some goroutine can always
\* step until RunBSP has returned or panicked on an unknown effect), every
\* step brings it nearer its end, and outside the phase the launching thread
\* is in, every phase is over; empty bands included.
C35_PhasesTerminate ==
    /\ [](numThreads >= 1 => \A i \in 1 .. Len(barriers) :
              /\ barriers[i].threshold = numThreads + 1
              /\ Arrivals(i) <= numThreads + 1
              /\ Cardinality(BandsOf(i)) <= numThreads
              /\ PhaseOver(i) \/ MainIn(i)
              /\ (i = Phase /\ barriers[i].generation = 0) =>
                     /\ Arrivals(i) = Cardinality(Parked(i))
                                        + (IF pc[Main] = "bspWait" THEN 1 ELSE 0)
                     /\ Cardinality(BandsOf(i)) = bi
              /\ (i = Phase /\ pc[Main] \in {"bsp195", "bspWait"}) => bi = numThreads
              /\ barriers[i].generation = 1 => Arrivals(i) = numThreads + 1 /\ BandsOf(i) = {})
    /\ []((numThreads >= 1 /\ pc[Main] \notin {"returned", "panic"}) => ENABLED NextRunBSP)
    /\ [](numThreads >= 1 => RunProgress <= RunProgressMax)
    /\ [][numThreads >= 1 => RunProgress' > RunProgress]_vars
\* two bands on an image of one row: band 0 was empty, and the phase is over
C35_Witness ==
    /\ numThreads = 2 /\ img # NoImage /\ img.height = 1
    /\ Phase = 1 /\ PhaseOver(1) /\ pc[Main] = "ae183"
    /\ Len(spawned) = 2 /\ spawned[1].start = spawned[1].end

(* -------------------------------- C36 ----------------------------------- *)
\* the rows (0-based) of buffer b that the step changes
RowsWritten(b) ==
    {y \in 0 .. (Len(pixels[b]) - 1) :
        Len(pixels'[b]) = Len(pixels[b]) /\ pixels'[b][y + 1] # pixels[b][y + 1]}
\* C36: a step of a band goroutine of a phase changes no row of the phase's
\* input buffer and only rows of the phase's output buffer that lie in the
\* goroutine's own band [start, end); the bands of a phase are pairwise
\* disjoint, so no two of them write the same pixel; and until its barrier
\* has released, no step at all changes the phase's input buffer, although
\* the rows written by a convolution are computed from rows y-1 and y+1 too.
C36_BandsWriteOwnRows ==
    /\ [][\A g \in bands \ bands' : g.pc = "rows" =>
            LET p == applied[g.phase]
                band == spawned[g.id + 1]
            IN  /\ pixels'[p.In] = pixels[p.In]
                /\ \A y \in RowsWritten(p.Out) : band.start <= y /\ y < band.end
                /\ g.y < g.end => RowsWritten(p.Out) = {g.y}]_vars
    /\ [](\A i \in 1 .. Len(spawned) : \A j \in 1 .. Len(spawned) :
              i # j => \A y \in 0 .. (img.height - 1) :
                 ~(/\ spawned[i].start <= y /\ y < spawned[i].end
                   /\ spawned[j].start <= y /\ y < spawned[j].end))
    /\ [][(Phase >= 1 /\ MainIn(Phase)) =>
            pixels'[applied[Phase].In] = pixels[applied[Phase].In]]_vars
    /\ [](\A g \in bands : /\ applied[g.phase].In = img.In
                            /\ applied[g.phase].Out = img.Out
                            /\ img.In # img.Out)
\* a sharpen phase of two bands on two rows is over: each band wrote its own
\* row from both input rows, and the input buffer still holds the file's rows
C36_Witness ==
    /\ numThreads = 2 /\ img.height = 2 /\ Phase = 1 /\ PhaseOver(1)
    /\ applied[1].effect = "S"
    /\ pixels[applied[1].In] = Original(2)
    /\ pixels[applied[1].Out] = [y \in 1 .. 2 |-> Convolve("S", Original(2), y - 1)]

(* -------------------------------- C37 ----------------------------------- *)
IsPush(e) == e.op = "Push"
PushLog == SelectSeq(log, IsPush)
\* C37: with one worker RunBSPSteal never calls Steal (the only victim of the
\* scan is the worker itself, which is skipped), and the worker pops and
\* processes the tasks in the reverse of the order they were pushed: the i-th
\* task popped is the i-th from the end of the pushes, and a task is
\* processed only when every task pushed after it has been.
C37_OneWorkerIsLIFO ==
    numWorkers = 1 =>
        /\ \A t \in Threads : ~InSteal(t) /\ pc[t] # "stealRet"
        /\ StealLog = <<>>
        /\ ~crashed
        /\ Len(PopLog) <= Len(PushLog)
        /\ \A i \in 1 .. Len(PopLog) :
              PopLog[i].task = PushLog[Len(PushLog) - i + 1].task
        /\ \A i \in 1 .. Len(PushLog) : \A j \in 1 .. Len(PushLog) :
              (i < j /\ Processed(PushLog[i].task) >= 1) => Processed(PushLog[j].task) = 1
        /\ \A k \in Tasks : Processed(k) <= 1
        /\ pc[Main] = "returned" => \A k \in 1 .. numTasks : Processed(k) = 1
\* the single worker has processed the task pushed last and not yet the first
C37_Witness ==
    /\ numWorkers = 1 /\ numTasks = 2
    /\ PushLog = <<Event("Push", 1), Event("Push", 2)>>
    /\ Processed(2) = 1 /\ Processed(1) = 0
    /\ pc[0] = "w138" /\ task[0] = 1

(* -------------------------------- C38 ----------------------------------- *)
\* C38: in RunParallelFiles a goroutine that leaves the critical section, by
\* the empty-queue exit or after its dequeue, leaves the lock word 0; the lock
\* word is cleared only by the one goroutine holding the lock; a goroutine
\* that is past its Unlock or has terminated does not hold it, so the lock is
\* free once every goroutine has terminated; and under fair scheduling every
\* goroutine spinning in Lock eventually acquires the lock (and then tests
\* the queue), every started goroutine terminates and the call returns.
C38_LockAlwaysReleased ==
    /\ [][\A t \in Goroutines : (Holding(t) /\ ~Holding(t)') =>
            /\ state = 1 /\ state' = 0
            /\ pc[t] \in {"pf81", "pf88"}]_vars
    /\ [][(state = 1 /\ state' = 0) =>
            \E t \in Goroutines : Holders = {t} /\ Holding(t) /\ ~Holding(t)']_vars
    /\ []((\A t \in Goroutines : pc[t] \in {"idle", "pf72", "exited"}) => state = 0)
    /\ [](state = 1 => \E t \in Goroutines : Holding(t))
    /\ \A t \in Goroutines : (pc[t] = "pf77") ~> (pc[t] = "pf80")
    /\ \A t \in Goroutines : (pc[t] = "pf77") ~> (pc[t] = "exited" /\ queue = <<>>)
    /\ (threadCount >= 0) => <>(pc[Main] = "returned" /\ state = 0)
\* the queue is empty, one goroutine has terminated through the empty-queue
\* exit, and the other, which was spinning, now holds the lock it left free
C38_Witness ==
    \E t, u \in Goroutines :
        /\ t # u /\ pc[t] = "exited" /\ pc[u] = "pf80"
        /\ queue = <<>> /\ state = 1

(* -------------------------------- C39 ----------------------------------- *)
\* the nodes whose next link is n
Before(n) == {m \in Nodes : next[m] = n}
\* C39: a step changes a node's next link only from nil to a node, and only
\* as the compare-and-swap of a Push that links its new node behind the node
\* it read as tail; a link once set is never cleared or changed, also not by
\* the Pop that retracts tail to the node; so no node leads back to itself
\* along next links, no node has two predecessors, and the set of links only
\* grows.
C39_LinksWrittenOnce ==
    /\ [][\A n \in Nodes : next'[n] # next[n] =>
            /\ next[n] = Nil /\ next'[n] \in Nodes
            /\ \E t \in Threads :
                  /\ pc[t] = "push41" /\ pc'[t] = "push43"
                  /\ frame[t].tail = n /\ frame[t].newNode = next'[n]]_vars
    /\ [][\A n \in Nodes : next[n] # Nil => next'[n] = next[n]]_vars
    /\ [](\A n \in Nodes : next[n] # Nil =>
              /\ ~Reaches(next[n], n)
              /\ Before(next[n]) = {n})
    /\ [](\A d \in Deques : Before(Dummy(d)) = {})
\* Pop has retracted tail to the dummy node, whose link to the popped node is
\* still set, and a later Push has linked its node behind the popped one
C39_Witness ==
    /\ \E i \in 1 .. Len(log) : log[i] = Event("Pop", 1)
    /\ next[Dummy(0)] = NodeOf(1)
    /\ next[NodeOf(1)] = NodeOf(2)
    /\ head[0] = Dummy(0)

====
